---- MODULE Spec2Model ----
(***************************************************************************)
(* A model of code-server's connection/session layer.                      *)
(*                                                                         *)
(* Part 1, the Session Dispatcher: Vscode.handleWebSocket and              *)
(* Vscode.connect of lib/vscode/src/vs/server/node/server.ts, with the     *)
(* table  this.connections : Map<ConnectionType, Map<string, Connection>>. *)
(* A handler runs to completion between two awaits; every await is a       *)
(* suspension point at which any other handler may run.  handleWebSocket   *)
(* awaits the handshake message (`await protocol.handshake()`, line 129),  *)
(* which comes from the outside, and then connect(), which has one await   *)
(* on each path that reaches a Connection: `await ok()` (lines 159 and     *)
(* 171).  The continuations run as microtasks, in the order in which they  *)
(* were queued.  The Connection class                  *)
(* (vs/server/node/connection.ts) and the Protocol class are not part of   *)
(* the sources at hand; their contract is taken from the specification     *)
(* (data model, sections 3, 4.1 and 4.2).                                  *)
(*                                                                         *)
(* Part 2, the Process Registry: PtyService of                             *)
(* lib/vscode/src/vs/platform/terminal/node/ptyService.ts, with its        *)
(* processes, their grace timers and orphan detectors, and the workspace   *)
(* layouts.                                                                *)
(*                                                                         *)
(* Part 3, the login route: RateLimiter and the POST handler of            *)
(* src/node/routes/login.ts.                                               *)
(***************************************************************************)
EXTENDS Integers, Sequences, FiniteSets, TLC

(***************************************************************************)
(* Bounds of the model.                                                    *)
(***************************************************************************)
\* Number of sockets (one handshake each) a behaviour may accept.
MaxSockets == 3
\* The same for the behaviours of RaceSpec, which draw one token and one type.
RaceSockets == 5
\* Number of createProcess calls a behaviour may make.
MaxPtys == 3
\* The same for the behaviours that follow one PersistentTerminalProcess in detail.
MaxProcs == 1
\* Number of data, resize, input and acknowledge events of one process.
MaxEvents == 3
\* Number of isOrphaned() calls made on one process.
MaxOrphanCalls == 2
\* Number of times start() may ask for the launch of one child.
MaxStarts == 2
\* Processes created in the behaviours that follow the grace timers of several
\* processes to the end of their lives.
MaxGraceProcs == 2
\* Number of tabs of a stored layout, and of terminals of a tab.
MaxTabs == 2
MaxTerminals == 2
\* Number of setTerminalLayoutInfo and of getTerminalLayoutInfo calls a
\* behaviour may make.
MaxLayoutSets == 1
\* Number of setTerminalLayoutInfo calls where two workspaces are followed.
MaxWorkspaceSets == 3
MaxLayoutCalls == 2
\* Number of removeToken() calls a behaviour may make on the login RateLimiter.
MaxRemoveCalls == 16
\* Number of POST /login requests that may be in progress at once.
MaxRequests == 2

(***************************************************************************)
(* Program constants and input domains.                                    *)
(***************************************************************************)
\* server.ts:67  private readonly maxExtraOfflineConnections = 0
maxExtraOfflineConnections == 0

\* query.reconnectionToken; NoToken is a query without one (server.ts:118).
NoToken == ""
\* The token of Spec: every race of the dispatcher is one on a single token.
Tokens == {"t1"}
\* The tokens of RetentionSpec: two Connections to go offline and a new one.
RetentionTokens == {"t1", "t2", "t3"}

\* ConnectionType values that own a table of Connections (server.ts:144-145).
ConnTypes == {"Management", "ExtensionHost"}
\* message.desiredConnectionType; "Unknown" is any value the switch does not list.
DesiredTypes == ConnTypes \cup {"Tunnel", "Unknown"}

SocketIds == 1..(IF RaceSockets > MaxSockets THEN RaceSockets ELSE MaxSockets)
\* A Connection object is identified by the socket whose handshake created it.
ConnIds == SocketIds
PtyIds == 1..(IF MaxProcs > MaxPtys THEN MaxProcs ELSE MaxPtys)
\* IProcessDataEvent payloads the child writes.
Chunks == {"a", "b"}
\* input() payloads.
Inputs == {"echo hi"}
\* (cols, rows) of resize().
Sizes == {[cols |-> 80, rows |-> 24], [cols |-> 120, rows |-> 40]}

\* args.workspaceId of setTerminalLayoutInfo and getTerminalLayoutInfo.
Workspaces == {"w1", "w2"}
\* The terminal ids a stored layout may refer to: those of the processes a
\* behaviour creates, and one id that is never issued.
LayoutTerminals == 1..(MaxProcs + 1)
\* ITerminalTabLayoutInfoById.terminals, as the ids it refers to in order
\* (relativeSize, isActive and activePersistentTerminalId are copied to the
\* result as they are and are left out).
SeqsUpTo(S, n) == UNION {[1..k -> S] : k \in 0..n}
StoredTabs == SeqsUpTo(LayoutTerminals, MaxTerminals)
\* args.tabs of setTerminalLayoutInfo
StoredLayouts == SeqsUpTo(StoredTabs, MaxTabs)
\* The layouts of at most one tab with at most one terminal.
SmallLayouts == SeqsUpTo(SeqsUpTo(LayoutTerminals, 1), 1)

\* login.ts:14-15  new Limiter(2, "minute"), new Limiter(12, "hour")
MinuteTokens == 2
HourTokens == 12
\* req.body.password of a POST /login request, by what the handler makes of it.
Passwords == {"missing", "wrong", "right"}
RequestIds == 1..MaxRequests

VARIABLES
    \* ---- Session Dispatcher ----
    sockets,        \* socket id -> "unused" | "open" | "closed" | "disposed"
    sent,           \* socket id -> sequence of messages the server wrote to it
    hs,             \* socket id -> the handleWebSocket call accepted on it
    jobs,           \* the sockets whose call has a continuation queued as a
                    \* microtask, in the order in which they will run
    overlaps,       \* the pairs of reconnection calls for one type and token
                    \* that were suspended at `await ok()` at the same time
                    \* (a record of the past: no step reads it)
    conn,           \* connection id -> the Connection object
    table,          \* this.connections: type -> insertion-ordered Map token -> connection
    clock,          \* Date.now(), a logical clock
    clientConnects, \* connection id -> number of _onDidClientConnect.fire calls for it
    extraOffline,   \* this.maxExtraOfflineConnections, a readonly field
    \* ---- Process Registry ----
    lastPtyId,      \* PtyService._lastPtyId
    ptys,           \* keys of PtyService._ptys
    child,          \* pty id -> "none" | "running" | "killed" | "exited"
    issued,         \* ids returned by createProcess, in order
    ptyDisposed,    \* whether the PtyService (a Disposable) has been disposed
    ptyError,       \* the error the PtyService call of the last step ended with, or "none"
    ptyLogged,      \* what the attachToProcess call of the last step wrote to the trace log
    ptp,            \* pty id -> the fields of its PersistentTerminalProcess
    term,           \* pty id -> what its TerminalProcess was asked to do
    history,        \* pty id -> the data the child wrote and the sizes it was given, in order
    client,         \* pty id -> "attached" since its creation, "detached", or
                    \* "reattached" after a detach
    fired,          \* the notifications the last step fired, in order
    orphanCalls,    \* pty id -> the isOrphaned() calls in _orphanRequestQueue, oldest first
    orphanAnswers,  \* pty id -> the answers isOrphaned() calls resolved with, in order
    probes,         \* pty id -> number of AutoOpenBarrier objects created for it
    layouts,        \* PtyService._workspaceLayoutInfos: workspace id -> stored tabs
    layoutCall,     \* the getTerminalLayoutInfo call that awaits its descriptors
    layoutResult,   \* what the last getTerminalLayoutInfo call to resolve returned
    layoutCalls,    \* number of getTerminalLayoutInfo calls made
    layoutSets,     \* number of setTerminalLayoutInfo calls made
    \* ---- Login ----
    minuteLimiter,  \* RateLimiter.minuteLimiter: the tokens left in its bucket
    hourLimiter,    \* RateLimiter.hourLimiter: the tokens left in its bucket
    removeResults,  \* what the removeToken() calls returned, in order
    requests        \* request slot -> the POST /login request handled in it

dispatcherVars == <<sockets, sent, hs, jobs, overlaps, conn, table, clock, clientConnects, extraOffline>>
ptyVars == <<lastPtyId, ptys, child, issued, ptyDisposed, ptyError, ptyLogged,
            ptp, term, history, client, fired, orphanCalls, orphanAnswers, probes>>
layoutVars == <<layouts, layoutCall, layoutResult, layoutCalls, layoutSets>>
loginVars == <<minuteLimiter, hourLimiter, removeResults, requests>>
vars == <<sockets, sent, hs, jobs, overlaps, conn, table, clock, clientConnects, extraOffline,
          lastPtyId, ptys, child, issued, ptyDisposed, ptyError, ptyLogged,
          ptp, term, history, client, fired, orphanCalls, orphanAnswers, probes,
          layouts, layoutCall, layoutResult, layoutCalls, layoutSets,
          minuteLimiter, hourLimiter, removeResults, requests>>

(***************************************************************************)
(* JavaScript Map<string, Connection>: a sequence of entries in insertion  *)
(* order.  set() on a present key keeps the key's position.                *)
(***************************************************************************)
MapHas(m, token) == \E i \in DOMAIN m : m[i].token = token

MapGet(m, token) == LET i == CHOOSE j \in DOMAIN m : m[j].token = token IN m[i].c

MapSet(m, token, c) ==
    IF MapHas(m, token)
    THEN [i \in DOMAIN m |-> IF m[i].token = token THEN [token |-> token, c |-> c] ELSE m[i]]
    ELSE Append(m, [token |-> token, c |-> c])

MapDelete(m, token) == SelectSeq(m, LAMBDA e : e.token # token)

\* Array.from(map.values())
MapValues(m) == [i \in DOMAIN m |-> m[i].c]

(***************************************************************************)
(* Connection (contract from the specification): token, type, bound socket *)
(* (0 when none), offline timestamp (0 when undefined), disposed flag.     *)
(***************************************************************************)
NoConn == [type |-> "none", token |-> NoToken, socket |-> 0, offline |-> 0, disposed |-> FALSE]

Exists(c) == conn[c].type # "none"
Live(c) == Exists(c) /\ ~conn[c].disposed

\* The handleWebSocket call on a socket: where it stands, and its request
\* while it is suspended.  It waits for the handshake message with the token
\* and the reconnection flag of its query (awaitHandshake), is about to call
\* connect() with the message that has arrived (connect), or is suspended in
\* connect() at `await ok()` (awaitOkNew, awaitOkReconnect); `inOk` says that
\* ok() itself is still suspended at `await this.getDebugPort()`.  A call whose
\* handshake was rejected or whose connect() has thrown awaits the rejected
\* promise and keeps the message of the error (thrown).  A call that has
\* returned or has run its catch block (done, tunnel, failed, rejected) keeps
\* only its outcome.
NoHandshake == [pc |-> "idle", token |-> NoToken, reconnection |-> FALSE, dtype |-> "none",
                inOk |-> FALSE, error |-> "none"]
\* ok(): the extension host's branch awaits getDebugPort() before it returns
AwaitsDebugPort(dtype) == dtype = "ExtensionHost"
Handshake(pc, token, reconnection, dtype) ==
    [pc |-> pc, token |-> token, reconnection |-> reconnection, dtype |-> dtype,
     inOk |-> AwaitsDebugPort(dtype), error |-> "none"]
\* The call suspended at `await protocol.handshake()`, and the call whose
\* handshake has resolved with a message of the desired type.
AwaitsHandshake(token, reconnection) ==
    [NoHandshake EXCEPT !.pc = "awaitHandshake", !.token = token,
                        !.reconnection = reconnection]
Resolved(h, dtype) == [h EXCEPT !.pc = "connect", !.dtype = dtype]
Ended(pc) == [NoHandshake EXCEPT !.pc = pc]
Thrown(reason) == [NoHandshake EXCEPT !.pc = "thrown", !.error = reason]

\* new ManagementConnection(protocol, token) / new ExtensionHostConnection(.., protocol, buffer, token, ..):
\* the Connection is built on the handshake's protocol, hence bound to its socket.
NewConnection(dtype, token, s) ==
    [type |-> dtype, token |-> token, socket |-> s, offline |-> 0, disposed |-> FALSE]

\* The state a Connection operation works on.
St(cn, sk, tb) == [conn |-> cn, sockets |-> sk, table |-> tb]

\* connection.onClose(() => { connections.delete(token) }): the listener closes over
\* the inner map of the connection's type and over the connection's token.
OnClose(tb, dtype, token) == [tb EXCEPT ![dtype] = MapDelete(@, token)]

\* A disposed Connection is referenced by nothing (its table entry goes with it):
\* only the fact that it existed and was disposed is kept.
DisposedConn == [type |-> "disposed", token |-> NoToken, socket |-> 0, offline |-> 0, disposed |-> TRUE]

\* Connection.dispose(): once only; tears the bound socket down and fires onClose.
DisposeConnection(st, c) ==
    IF st.conn[c].disposed
    THEN st
    ELSE St([st.conn EXCEPT ![c] = DisposedConn],
            IF st.conn[c].socket # 0
            THEN [st.sockets EXCEPT ![st.conn[c].socket] = "disposed"]
            ELSE st.sockets,
            OnClose(st.table, st.conn[c].type, st.conn[c].token))

\* Connection.reconnect(socket, buffer): clears the offline mark, disposes the old
\* socket and re-points the Connection at the new one.
ReconnectConnection(st, c, s) ==
    St([st.conn EXCEPT ![c].offline = 0, ![c].socket = s],
       IF st.conn[c].socket # 0 /\ st.conn[c].socket # s
       THEN [st.sockets EXCEPT ![st.conn[c].socket] = "disposed"]
       ELSE st.sockets,
       st.table)

(***************************************************************************)
(* Vscode.connect, the pieces of its synchronous steps.                    *)
(***************************************************************************)
\* if (!this.connections.has(type)) this.connections.set(type, new Map())
EnsureMap(tb, dtype) ==
    [t \in DOMAIN tb \cup {dtype} |-> IF t \in DOMAIN tb THEN tb[t] ELSE << >>]

\* const connections = this.connections.get(message.desiredConnectionType)!
ConnectionsFor_AnyType(tb, dtype) ==
    LET RECURSIVE Cat(_)
        Cat(S) == IF S = {} THEN << >>
                  ELSE LET t == CHOOSE x \in S : TRUE IN tb[t] \o Cat(S \ {t})
    IN Cat(DOMAIN tb)

ConnectionsFor(tb, dtype) == tb[dtype]

\* case ConnectionType.Tunnel: return protocol.tunnel(); the lookup-or-create
\* of the inner map (lines 146-148) belongs to the other case and is not run.
TunnelTable_EnsureMap(tb) == EnsureMap(tb, "Tunnel")

TunnelTable(tb) == tb

\* protocol.options.reconnection && connections.has(token)
IsReconnect(reconnection, has) == reconnection /\ has

\* else if (protocol.options.reconnection || connections.has(token))
IsRejected_NoDuplicateCheck(reconnection, has) == reconnection

IsRejected(reconnection, has) == reconnection \/ has

\* the message of the Error protocol.handshake() rejects with
HandshakeError == "Protocol socket closed unexpectedly"

\* the message of the Error thrown at lines 164-167
TokenError(reconnection) ==
    IF reconnection THEN "Unrecognized reconnection token" ELSE "Duplicate reconnection token"

\* ok(): { debugPort } for the extension host, { type: 'ok' } otherwise
Ok(dtype) == IF dtype = "ExtensionHost" THEN "debugPort" ELSE "ok"

ErrorMessage(reason) == [type |-> "error", reason |-> reason]
AckMessage(dtype) == [type |-> Ok(dtype), reason |-> ""]

\* handleWebSocket's catch: protocol.dispose(); protocol.getSocket().dispose()
CatchTeardown_SocketLeftOpen(sk, s) == sk

CatchTeardown(sk, s) == [sk EXCEPT ![s] = "disposed"]

\* connections.values() filtered by typeof connection.offline !== 'undefined'
OfflineConnections_Unfiltered(cn, m) == MapValues(m)

OfflineConnections(cn, m) == SelectSeq(MapValues(m), LAMBDA c : cn[c].offline # 0)

\* for (i = 0, max = offline.length - maxExtraOfflineConnections; i < max; ++i)
DisposeCount_NewestKept(n) == IF n - 1 > 0 THEN n - 1 ELSE 0

DisposeCount(n) == IF n - extraOffline > 0 THEN n - extraOffline ELSE 0

RECURSIVE DisposeEach(_, _, _)
DisposeEach(st, offline, i) ==
    IF i > DisposeCount(Len(offline))
    THEN st
    ELSE DisposeEach(DisposeConnection(st, offline[i]), offline, i + 1)

\* disposeOldOfflineConnections(connections): the array is taken before the loop.
disposeOldOfflineConnections(st, dtype) ==
    DisposeEach(st, OfflineConnections(st.conn, st.table[dtype]), 1)

(***************************************************************************)
(* PtyService, the pieces of its handlers.                                 *)
(***************************************************************************)
\* const id = ++this._lastPtyId
NextPtyId_FirstFree(last, registry) == Cardinality(registry) + 1

NextPtyId(last, registry) == last + 1

\* _throwIfNoPty(id): the lookup in this._ptys
HasPty_AnyId(registry, id) == TRUE

HasPty(registry, id) == id \in registry

\* The message of the Error _throwIfNoPty throws (the id is left out).
NoPtyError == "Could not find pty"

\* createProcess: the Error thrown for a launch config with attachPersistentTerminal,
\* and this._lastPtyId after it: the throw comes before `++this._lastPtyId`.
AttachError == "Attempt to create a process when attach object was provided"

LastPtyIdAfterThrow_Incremented(last) == last + 1

LastPtyIdAfterThrow(last) == last

(***************************************************************************)
(* PersistentTerminalProcess: its fields.  The two RunOnceSchedulers are   *)
(* kept as "armed or not", the AutoOpenBarrier the field refers to as      *)
(* "null", "closed" or "open", and _orphanQuestionReplyTime by what the    *)
(* comparison of line 401 can tell of it: "zero" (never set, or reset),    *)
(* "recent" (no more than 500ms ago) or "old".  RunOnceScheduler, Queue,   *)
(* AutoOpenBarrier, TerminalRecorder and TerminalProcess are not part of   *)
(* the sources at hand; they follow the specification (sections 3, 4.3,    *)
(* 4.4 and 5).                                                             *)
(***************************************************************************)
NoPtp == [shouldPersist |-> FALSE, isStarted |-> FALSE, inReplay |-> FALSE,
          runner1 |-> FALSE, runner2 |-> FALSE,
          barrier |-> "null", replyTime |-> "zero",
          recorder |-> << >>, disposed |-> FALSE]

\* new PersistentTerminalProcess(id, process, ..., shouldPersist, cols, rows, log)
NewPtp(shouldPersist) == [NoPtp EXCEPT !.shouldPersist = shouldPersist]

\* Disposable.dispose() of a PersistentTerminalProcess: the registered
\* RunOnceSchedulers are disposed, which cancels them.  The barrier and the
\* queue are not registered.  The recorder of a disposed process is dropped.
DisposePtp_TimersKept(p) == [p EXCEPT !.disposed = TRUE]

DisposePtp(p) == [NoPtp EXCEPT !.disposed = TRUE,
                               !.barrier = p.barrier, !.replyTime = p.replyTime]

\* What a TerminalProcess was asked to do: start() calls made and still
\* awaited, whether the child was spawned, and what was forwarded to it.
NoTerm == [launches |-> 0, starting |-> 0, spawned |-> FALSE, received |-> << >>]

\* TerminalProcess.shutdown(immediate): kills a child that is alive.
ShutdownChild(status) == IF status = "running" THEN "killed" ELSE status

\* Recorded and forwarded events.
Event(type, data, size) == [type |-> type, data |-> data, cols |-> size.cols, rows |-> size.rows]
NoSize == [cols |-> 0, rows |-> 0]
DataEvent(chunk) == Event("data", chunk, NoSize)
ResizeEvent(size) == Event("resize", "", size)
InputEvent(data) == Event("input", data, NoSize)
AckEvent == Event("ack", "", NoSize)

\* TerminalRecorder.recordData(e), .recordResize(cols, rows), .generateReplayEvent()
RecordData(rec, chunk) == Append(rec, DataEvent(chunk))

RecordResize_Dropped(rec, size) == rec

RecordResize(rec, size) == Append(rec, ResizeEvent(size))

GenerateReplayEvent(rec) == rec

\* A notification fired by an Emitter of the process.
Notification(id, event, payload) == [id |-> id, event |-> event, payload |-> payload]

\* detach(): if (this.shouldPersistTerminal) schedule the long timer, else shut down.
DetachSchedules_Never(shouldPersist) == FALSE

DetachSchedules(shouldPersist) == shouldPersist

\* detach(): this._disconnectRunner1.schedule()
ScheduleRunner1_Restarted(p) == [NewPtp(p.shouldPersist) EXCEPT !.runner1 = TRUE]

ScheduleRunner1(p) == [p EXCEPT !.runner1 = TRUE]

\* attach(): this._disconnectRunner1.cancel()
AttachCancel_Nothing(p) == p

AttachCancel(p) == [p EXCEPT !.runner1 = FALSE]

\* start(): `if (result) return result` comes before `this._isStarted = true`.
MarksStarted_Always(launchError) == TRUE

MarksStarted(launchError) == ~launchError

\* input(), resize(), acknowledgeDataEvent(): if (this._inReplay) return
InReplay_Always(p) == TRUE

InReplay(p) == p.inReplay

\* start(): if (!this._isStarted) launch, else replay.
StartLaunches_Always(p) == TRUE

StartLaunches(p) == ~p.isStarted

\* _isOrphaned(): this._disconnectRunner1.isScheduled() || this._disconnectRunner2.isScheduled()
TimerArmed_LongOnly(p) == p.runner1

TimerArmed(p) == p.runner1 \/ p.runner2

\* _isOrphaned(): Date.now() - this._orphanQuestionReplyTime > 500
OrphanedByReplyTime(replyTime) == replyTime # "recent"

\* An isOrphaned() call in the queue: "queued" behind another, "waiting" on
\* a barrier, or "returned": its check has returned `value` and the queue,
\* which reacts to the promise of the check in a later microtask, still holds
\* its place.  `open` says whether the barrier it waits on has opened, and
\* `overlapped` whether another call was unresolved when this one was made.
OrphanCall(st, open, overlapped) ==
    [st |-> st, open |-> open, overlapped |-> overlapped, value |-> FALSE]

\* The call whose check, _isOrphaned(), has returned.
Returned(value, overlapped) ==
    [st |-> "returned", open |-> FALSE, overlapped |-> overlapped, value |-> value]

\* The events of a process counted against MaxEvents.
EventCount(id) == Len(history[id]) + Len(term[id].received)

(***************************************************************************)
(* Workspace layouts: PtyService._workspaceLayoutInfos and the expansion   *)
(* of a stored layout by getTerminalLayoutInfo.  A stored tab is the       *)
(* sequence of the terminal ids it refers to.                              *)
(***************************************************************************)
\* this._workspaceLayoutInfos.get(workspaceId) of a workspace never set
NoLayout == [set |-> FALSE, tabs |-> << >>]
\* this._workspaceLayoutInfos.set(args.workspaceId, args)
StoredLayout(tabs) == [set |-> TRUE, tabs |-> tabs]

\* The positions <<tab, terminal>> of a stored layout, and those among them
\* that refer to process id, up to a position and in all.
Positions(tabs) == UNION {{<<i, j>> : j \in 1..Len(tabs[i])} : i \in 1..Len(tabs)}
RefsUpTo(tabs, id, i, j) ==
    Cardinality({p \in Positions(tabs) :
                    /\ tabs[p[1]][p[2]] = id
                    /\ (p[1] < i \/ (p[1] = i /\ p[2] <= j))})
RefCount(tabs, id) == Cardinality({p \in Positions(tabs) : tabs[p[1]][p[2]] = id})

\* _expandTerminalInstance: { terminal: null } of the catch clause, and the
\* descriptor awaited otherwise: `call` is the place of its isOrphaned() call
\* among the calls made on the process, which `base` counts up to now.
NullTerminal == [terminal |-> 0, call |-> 0]
ExpandTerminalInstance(registry, tabs, i, j, base) ==
    LET id == tabs[i][j]
    IN IF HasPty(registry, id)
       THEN [terminal |-> id, call |-> base[id] + RefsUpTo(tabs, id, i, j)]
       ELSE NullTerminal

\* _terminalToDto: the descriptor of a process (title, pid, workspaceId,
\* workspaceName and cwd are left out); id 0 stands for `terminal: null`.
TerminalToDto(id, isOrphan) == [id |-> id, isOrphan |-> isOrphan]
NullDto == TerminalToDto(0, FALSE)

\* _expandTerminalTab: expandedTerminals.filter(term => term.terminal !== null)
IsTerminal(t) == t.id # 0

\* getTerminalLayoutInfo: expandedTabs.filter(t => t.terminals.length > 0)
KeepTab_Always(tab) == TRUE

KeepTab(tab) == Len(tab) > 0

\* _expandTerminalTab once the descriptors of its terminals have arrived:
\* `answers` holds what the isOrphaned() calls of each process resolved with.
ExpandTerminalTab(entries, answers) ==
    SelectSeq([j \in 1..Len(entries) |->
                  IF entries[j].terminal = 0
                  THEN NullDto
                  ELSE TerminalToDto(entries[j].terminal,
                                     answers[entries[j].terminal][entries[j].call].value)],
              IsTerminal)

\* No getTerminalLayoutInfo call awaits its descriptors.
NoLayoutCall == [pending |-> FALSE, workspace |-> "", stored |-> << >>, live |-> {},
                 tabs |-> << >>]
\* What a getTerminalLayoutInfo call returned: "undefined" or { tabs }, kept
\* with the stored tabs and the registry of the moment the call was made.
LayoutResult(status, workspace, stored, live, tabs) ==
    [status |-> status, workspace |-> workspace, stored |-> stored, live |-> live,
     tabs |-> tabs]
NoLayoutResult == LayoutResult("none", "", << >>, {}, << >>)

\* k isOrphaned() calls made on process id one after the other within one
\* synchronous step: each call after the first is made while the one before
\* it is unresolved and is queued behind it.  With nothing queued before, the
\* check of the first runs in this step, to its return of true with a timer
\* armed and up to `await barrier.wait()` otherwise; the checks of the others
\* run later, one by one, as the queue gets to them.
OrphanCallsMade(id, k) ==
    LET p == ptp[id]
        same == [ptp |-> p, calls |-> orphanCalls[id], answers |-> orphanAnswers[id],
                 probes |-> probes[id]]
        fresh == p.barrier = "null"
        barrier == IF fresh THEN "closed" ELSE p.barrier
    IN IF k = 0 THEN same
       ELSE IF orphanCalls[id] # << >>
       THEN [same EXCEPT !.calls = @ \o [i \in 1..k |-> OrphanCall("queued", FALSE, TRUE)]]
       ELSE IF TimerArmed(p)
       THEN [same EXCEPT !.calls = <<Returned(TRUE, FALSE)>>
                                   \o [i \in 1..(k - 1) |-> OrphanCall("queued", FALSE, TRUE)]]
       ELSE [ptp |-> [p EXCEPT !.barrier = barrier,
                               !.replyTime = IF fresh THEN "zero" ELSE @],
             calls |-> <<OrphanCall("waiting", barrier = "open", FALSE)>>
                       \o [i \in 1..(k - 1) |-> OrphanCall("queued", FALSE, TRUE)],
             answers |-> orphanAnswers[id],
             probes |-> IF fresh THEN probes[id] + 1 ELSE probes[id]]

(***************************************************************************)
(* The login RateLimiter (src/node/routes/login.ts): two token buckets of  *)
(* the `limiter` package, each full when created.  No time passes in this  *)
(* model, so no token drips back into a bucket.                            *)
(***************************************************************************)
\* new Limiter(tokens, interval)
NewLimiter(tokens) == [content |-> tokens]
\* Limiter.getTokensRemaining()
GetTokensRemaining(limiter) == limiter.content
\* Limiter.tryRemoveTokens(count): whether it removes, and the bucket after it
CanRemoveTokens(limiter, count) == count <= limiter.content
TryRemoveTokens(limiter, count) ==
    IF CanRemoveTokens(limiter, count) THEN [limiter EXCEPT !.content = @ - count] ELSE limiter

\* RateLimiter.canTry()
CanTry_Always(minute, hour) == TRUE

CanTry(minute, hour) == GetTokensRemaining(minute) >= 1 \/ GetTokensRemaining(hour) >= 1

\* RateLimiter.removeToken(): minuteLimiter.tryRemoveTokens(1) || hourLimiter.tryRemoveTokens(1);
\* the hour bucket is asked only when the minute bucket refuses.
UsesHourLimiter_Always(minute) == TRUE

UsesHourLimiter(minute) == ~CanRemoveTokens(minute, 1)

RemoveTokenResult(minute, hour) ==
    CanRemoveTokens(minute, 1) \/ (UsesHourLimiter(minute) /\ CanRemoveTokens(hour, 1))
MinuteAfterRemove(minute) == TryRemoveTokens(minute, 1)
HourAfterRemove(minute, hour) ==
    IF UsesHourLimiter(minute) THEN TryRemoveTokens(hour, 1) ELSE hour

\* A POST /login request slot: where its handler stands, the password it
\* carries, the error it renders, and whether the session cookie was set.
Request(pc, password, error, cookie) ==
    [pc |-> pc, password |-> password, error |-> error, cookie |-> cookie]
NoRequest == Request("idle", "missing", "none", FALSE)

(***************************************************************************)
(* Initial state: no socket accepted, empty table, empty registry.         *)
(***************************************************************************)
NoSockets ==
    /\ sockets = [s \in SocketIds |-> "unused"]
    /\ sent = [s \in SocketIds |-> << >>]
    /\ hs = [s \in SocketIds |-> NoHandshake]
    /\ jobs = << >>
    /\ overlaps = {}
    /\ conn = [c \in ConnIds |-> NoConn]
    /\ table = [t \in {} |-> << >>]
    /\ clock = 1
    /\ clientConnects = [c \in ConnIds |-> 0]

DispatcherInit == NoSockets /\ extraOffline = maxExtraOfflineConnections

\* new PtyService(lastPtyId, logService), counting from 0.
PtyInit ==
    /\ lastPtyId = 0
    /\ ptys = {}
    /\ child = [p \in PtyIds |-> "none"]
    /\ issued = << >>
    /\ ptyDisposed = FALSE
    /\ ptyError = "none"
    /\ ptyLogged = "none"
    /\ ptp = [p \in PtyIds |-> NoPtp]
    /\ term = [p \in PtyIds |-> NoTerm]
    /\ history = [p \in PtyIds |-> << >>]
    /\ client = [p \in PtyIds |-> "none"]
    /\ fired = << >>
    /\ orphanCalls = [p \in PtyIds |-> << >>]
    /\ orphanAnswers = [p \in PtyIds |-> << >>]
    /\ probes = [p \in PtyIds |-> 0]
    /\ layouts = [w \in Workspaces |-> NoLayout]
    /\ layoutCall = NoLayoutCall
    /\ layoutResult = NoLayoutResult
    /\ layoutCalls = 0
    /\ layoutSets = 0

\* const limiter = new RateLimiter(), and no request received yet.
LoginInit ==
    /\ minuteLimiter = NewLimiter(MinuteTokens)
    /\ hourLimiter = NewLimiter(HourTokens)
    /\ removeResults = << >>
    /\ requests = [r \in RequestIds |-> NoRequest]

Init == DispatcherInit /\ PtyInit /\ LoginInit

(***************************************************************************)
(* Vscode.handleWebSocket and Vscode.connect, one action per synchronous   *)
(* step.                                                                   *)
(***************************************************************************)
\* The socket the next handleWebSocket call is about.
NextSocket == CHOOSE s \in SocketIds :
                  sockets[s] = "unused" /\ \A r \in SocketIds : r < s => sockets[r] # "unused"

Accepted == {s \in SocketIds : sockets[s] # "unused"}

\* connect() throws after `acks` were written: its promise is rejected, and
\* handleWebSocket, which awaits it, runs its catch block in a later
\* microtask, queued behind those of `queue`.
Throw(s, acks, reason, tb, queue) ==
    /\ hs' = [hs EXCEPT ![s] = Thrown(reason)]
    /\ jobs' = Append(queue, s)
    /\ sent' = [sent EXCEPT ![s] = @ \o acks]
    /\ table' = tb
    /\ UNCHANGED <<sockets, conn, clock, clientConnects>>

\* connect() suspends at `await ok()`: ok() has returned for Management and
\* is suspended at `await this.getDebugPort()` for the extension host; either
\* way the next step of the call is a microtask.
Suspend(s, pc, token, reconnection, dtype, tb) ==
    /\ hs' = [hs EXCEPT ![s] = Handshake(pc, token, reconnection, dtype)]
    /\ jobs' = Append(Tail(jobs), s)
    /\ table' = tb
    /\ UNCHANGED <<sockets, sent, conn, clock, clientConnects>>

\* The pairs a reconnection call suspended on socket s makes with the
\* reconnection calls for its type and token that are suspended too.
InFlightWith(h, s) ==
    {{r, s} : r \in {r \in SocketIds \ {s} :
                        /\ h[s].pc = "awaitOkReconnect"
                        /\ h[r].pc = "awaitOkReconnect"
                        /\ h[r].dtype = h[s].dtype
                        /\ h[r].token = h[s].token}}

\* The call on the socket is the one whose microtask runs next.
RunsNext(s) == jobs # << >> /\ Head(jobs) = s

\* handleWebSocket on a new socket, from its call to its first await.  A
\* query without a token throws before the Protocol is built: nothing is sent
\* and the socket is left as it is.  Otherwise the Protocol is built with the
\* token and the reconnection flag of the query, and the call is suspended at
\* `await protocol.handshake()`.
HandleWebSocket(token, reconnection) ==
    /\ \E s \in SocketIds : sockets[s] = "unused"
    /\ LET s == NextSocket
       IN /\ hs' = [hs EXCEPT ![s] = IF token = NoToken
                                      THEN Ended("rejected")
                                      ELSE AwaitsHandshake(token, reconnection)]
          /\ sockets' = [sockets EXCEPT ![s] = "open"]
    /\ UNCHANGED <<sent, jobs, overlaps, conn, table, clock, clientConnects>>
    /\ UNCHANGED <<extraOffline, ptyVars, layoutVars, loginVars>>

\* The handshake message arrives on an open socket: protocol.handshake()
\* resolves with it, and the call goes on in a microtask.
HandshakeResolves(s, dtype) ==
    /\ hs[s].pc = "awaitHandshake"
    /\ sockets[s] = "open"
    /\ hs' = [hs EXCEPT ![s] = Resolved(@, dtype)]
    /\ jobs' = Append(jobs, s)
    /\ UNCHANGED <<sockets, sent, overlaps, conn, table, clock, clientConnects>>
    /\ UNCHANGED <<extraOffline, ptyVars, layoutVars, loginVars>>

\* protocol.handshake() rejects: the call goes on in its catch block, in a
\* microtask, without connect() having run.
HandshakeRejects(s) ==
    /\ hs[s].pc = "awaitHandshake"
    /\ hs' = [hs EXCEPT ![s] = Thrown(HandshakeError)]
    /\ jobs' = Append(jobs, s)
    /\ UNCHANGED <<sockets, sent, overlaps, conn, table, clock, clientConnects>>
    /\ UNCHANGED <<extraOffline, ptyVars, layoutVars, loginVars>>

\* handleWebSocket resumed with the handshake message: connect() runs to its
\* first await, to its return (Tunnel) or to its throw, after which
\* handleWebSocket is suspended at `await this.connect(...)` with the promise
\* rejected.
Connect(s) ==
    /\ RunsNext(s)
    /\ hs[s].pc = "connect"
    /\ LET token == hs[s].token
           reconnection == hs[s].reconnection
           dtype == hs[s].dtype
       IN IF dtype \in ConnTypes
          THEN LET tb == EnsureMap(table, dtype)
                   has == MapHas(ConnectionsFor(tb, dtype), token)
               IN IF IsReconnect(reconnection, has)
                  THEN Suspend(s, "awaitOkReconnect", token, reconnection, dtype, tb)
                  ELSE IF IsRejected(reconnection, has)
                  THEN Throw(s, << >>, TokenError(reconnection), tb, Tail(jobs))
                  ELSE Suspend(s, "awaitOkNew", token, reconnection, dtype, tb)
          ELSE IF dtype = "Tunnel"
          THEN /\ hs' = [hs EXCEPT ![s] = Ended("tunnel")]
               /\ jobs' = Tail(jobs)
               /\ table' = TunnelTable(table)
               /\ UNCHANGED <<sockets, sent, conn, clock, clientConnects>>
          ELSE Throw(s, << >>, "Unrecognized connection type", table, Tail(jobs))
    /\ overlaps' = overlaps \cup InFlightWith(hs', s)
    /\ UNCHANGED <<extraOffline, ptyVars, layoutVars, loginVars>>

\* The reconnection branch after `await ok()`: send the acknowledgement, then
\* connections.get(token)!.reconnect(protocol.getSocket(), buffer).  When the token
\* is no longer in the map, get() is undefined and the call is a TypeError:
\* connect() has sent the acknowledgement and its promise is rejected.
ResumeReconnect(s) ==
    /\ RunsNext(s)
    /\ hs[s].pc = "awaitOkReconnect" /\ ~hs[s].inOk
    /\ LET connections == ConnectionsFor(table, hs[s].dtype)
           ack == <<AckMessage(hs[s].dtype)>>
       IN IF MapHas(connections, hs[s].token)
          THEN LET st == ReconnectConnection(St(conn, sockets, table),
                                             MapGet(connections, hs[s].token), s)
               IN /\ hs' = [hs EXCEPT ![s] = Ended("done")]
                  /\ jobs' = Tail(jobs)
                  /\ sent' = [sent EXCEPT ![s] = @ \o ack]
                  /\ conn' = st.conn
                  /\ sockets' = st.sockets
                  /\ table' = st.table
                  /\ UNCHANGED <<clock, clientConnects>>
          ELSE Throw(s, ack, "TypeError", table, Tail(jobs))
    /\ UNCHANGED <<overlaps, extraOffline, ptyVars, layoutVars, loginVars>>

\* The new-connection branch after `await ok()`: send the acknowledgement, build
\* the Connection, fire onDidClientConnect (Management only), connections.set,
\* register the onClose listener, disposeOldOfflineConnections.
ResumeNew(s) ==
    /\ RunsNext(s)
    /\ hs[s].pc = "awaitOkNew" /\ ~hs[s].inOk
    /\ LET dtype == hs[s].dtype
           token == hs[s].token
           cn == [conn EXCEPT ![s] = NewConnection(dtype, token, s)]
           tb == [table EXCEPT ![dtype] = MapSet(@, token, s)]
           st == disposeOldOfflineConnections(St(cn, sockets, tb), dtype)
       IN /\ hs' = [hs EXCEPT ![s] = Ended("done")]
          /\ jobs' = Tail(jobs)
          /\ sent' = [sent EXCEPT ![s] = Append(@, AckMessage(dtype))]
          /\ clientConnects' = IF dtype = "Management"
                               THEN [clientConnects EXCEPT ![s] = @ + 1]
                               ELSE clientConnects
          /\ conn' = st.conn
          /\ sockets' = st.sockets
          /\ table' = st.table
          /\ UNCHANGED clock
    /\ UNCHANGED <<overlaps, extraOffline, ptyVars, layoutVars, loginVars>>

\* ok() resumed after `await this.getDebugPort()`: it returns { debugPort },
\* which settles the promise connect() awaits; the continuation of connect()
\* is queued behind the microtasks queued so far.
OkResume(s) ==
    /\ RunsNext(s)
    /\ hs[s].inOk
    /\ hs' = [hs EXCEPT ![s].inOk = FALSE]
    /\ jobs' = Append(Tail(jobs), s)
    /\ UNCHANGED <<sockets, sent, conn, table, clock, clientConnects>>
    /\ UNCHANGED <<overlaps, extraOffline, ptyVars, layoutVars, loginVars>>

\* handleWebSocket resumed with the rejection of connect(): its catch block
\* sends { type: 'error', reason: error.message }, then protocol.dispose() and
\* protocol.getSocket().dispose().
HandleWebSocketCatch(s) ==
    /\ RunsNext(s)
    /\ hs[s].pc = "thrown"
    /\ hs' = [hs EXCEPT ![s] = Ended("failed")]
    /\ jobs' = Tail(jobs)
    /\ sent' = [sent EXCEPT ![s] = Append(@, ErrorMessage(hs[s].error))]
    /\ sockets' = CatchTeardown(sockets, s)
    /\ UNCHANGED <<conn, table, clock, clientConnects>>
    /\ UNCHANGED <<overlaps, extraOffline, ptyVars, layoutVars, loginVars>>

(***************************************************************************)
(* Events of a Connection (contract from the specification).               *)
(***************************************************************************)
\* The Connections that listen to the close event of a socket: the live ones
\* bound to it.
BoundTo(s) == {c \in ConnIds : Live(c) /\ conn[c].socket = s}

\* An open socket closes.  The Connection bound to it is marked offline with
\* the current time and has no bound socket any more; it stays in the table.
\* A socket whose handleWebSocket call has built no Connection yet (it is
\* suspended in connect(), or has ended without one) has no Connection to
\* tell: the close event is gone when a Connection is built on it later.
SocketClose(s) ==
    /\ sockets[s] = "open"
    /\ conn' = [c \in ConnIds |->
                   IF c \in BoundTo(s)
                   THEN [conn[c] EXCEPT !.socket = 0,
                                        !.offline = IF @ = 0 THEN clock ELSE @]
                   ELSE conn[c]]
    /\ sockets' = [sockets EXCEPT ![s] = "closed"]
    /\ clock' = IF BoundTo(s) # {} THEN clock + 1 ELSE clock
    /\ UNCHANGED <<sent, hs, jobs, table, clientConnects>>
    /\ UNCHANGED <<overlaps, extraOffline, ptyVars, layoutVars, loginVars>>

\* The client closes the Connection explicitly: Connection.dispose().
CloseConnection(c) ==
    /\ Live(c)
    /\ LET st == DisposeConnection(St(conn, sockets, table), c)
       IN /\ conn' = st.conn
          /\ sockets' = st.sockets
          /\ table' = st.table
    /\ UNCHANGED <<sent, hs, jobs, clock, clientConnects>>
    /\ UNCHANGED <<overlaps, extraOffline, ptyVars, layoutVars, loginVars>>

\* A behaviour accepts at most `limit` sockets.
Accept(limit, token, reconnection) ==
    /\ Cardinality(Accepted) < limit
    /\ HandleWebSocket(token, reconnection)

\* The dispatcher's steps, for at most `limit` sockets and requests drawn from
\* `tokens` and `dtypes`.
DispatcherSteps(limit, tokens, dtypes) ==
    \/ \E token \in tokens, reconnection \in BOOLEAN : Accept(limit, token, reconnection)
    \/ \E s \in SocketIds, dtype \in dtypes : HandshakeResolves(s, dtype)
    \/ \E s \in SocketIds : HandshakeRejects(s)
    \/ \E s \in SocketIds : Connect(s)
    \/ \E s \in SocketIds : ResumeReconnect(s)
    \/ \E s \in SocketIds : ResumeNew(s)
    \/ \E s \in SocketIds : HandleWebSocketCatch(s)
    \/ \E s \in SocketIds : SocketClose(s)
    \/ \E c \in ConnIds : CloseConnection(c)

DispatcherNext ==
    \/ DispatcherSteps(MaxSockets, Tokens \cup {NoToken}, DesiredTypes)
    \/ \E s \in SocketIds : OkResume(s)

Spec == Init /\ [][DispatcherNext]_vars

\* Management handshakes with three tokens: Connections go offline and a new
\* one is registered.
RetentionNext == DispatcherSteps(MaxSockets, RetentionTokens, {"Management"})

RetentionSpec == Init /\ [][RetentionNext]_vars

\* Handshakes that all carry one token and ask for one type, on one more socket.
RaceNext ==
    \/ \E reconnection \in BOOLEAN : Accept(RaceSockets, "t1", reconnection)
    \/ \E s \in SocketIds : HandshakeResolves(s, "Management")
    \/ \E s \in SocketIds : Connect(s)
    \/ \E s \in SocketIds : ResumeReconnect(s)
    \/ \E s \in SocketIds : ResumeNew(s)
    \/ \E s \in SocketIds : HandleWebSocketCatch(s)
    \/ \E c \in ConnIds : CloseConnection(c)

RaceSpec == Init /\ [][RaceNext]_vars

(***************************************************************************)
(* PtyService and PersistentTerminalProcess, one action per call, timer    *)
(* or child event.  The child (TerminalProcess) is alive from its          *)
(* creation, is killed by shutdown and reports its exit some time later;   *)
(* it writes data once start() has spawned it.  Flow control counters and  *)
(* pid, cwd and title of the child are left out.                           *)
(***************************************************************************)
registryVars == <<lastPtyId, ptys, issued, ptyDisposed>>
processVars == <<ptp, term, history, client>>
orphanVars == <<orphanCalls, orphanAnswers, probes>>

\* A call that returns or throws without touching any state.
Returns(error) ==
    /\ ptyError' = error
    /\ ptyLogged' = "none"
    /\ fired' = << >>
    /\ UNCHANGED <<registryVars, child, processVars, orphanVars>>
    /\ UNCHANGED <<dispatcherVars, layoutVars, loginVars>>

\* A timer callback, a child event or a call on the process itself: no
\* PtyService call ends with it, so there is no error and no trace of one.
NoCallEnds == ptyError' = "none" /\ ptyLogged' = "none"

\* createProcess(shellLaunchConfig, ..., shouldPersist, ...): `attach` says
\* whether the launch config carries attachPersistentTerminal.
CreateProcess(attach, shouldPersist) ==
    IF attach
    THEN /\ ptyError' = AttachError
         /\ lastPtyId' = LastPtyIdAfterThrow(lastPtyId)
         /\ ptyLogged' = "none"
         /\ fired' = << >>
         /\ UNCHANGED <<ptys, issued, ptyDisposed, child, processVars, orphanVars>>
         /\ UNCHANGED <<dispatcherVars, layoutVars, loginVars>>
    ELSE LET id == NextPtyId(lastPtyId, ptys)
         IN /\ lastPtyId' = id
            /\ ptys' = ptys \cup {id}
            /\ child' = [child EXCEPT ![id] = "running"]
            /\ issued' = Append(issued, id)
            /\ ptp' = [ptp EXCEPT ![id] = NewPtp(shouldPersist)]
            /\ term' = [term EXCEPT ![id] = NoTerm]
            /\ history' = [history EXCEPT ![id] = << >>]
            /\ client' = [client EXCEPT ![id] = "attached"]
            /\ ptyError' = "none"
            /\ ptyLogged' = "none"
            /\ fired' = << >>
            /\ UNCHANGED <<ptyDisposed, orphanVars>>
            /\ UNCHANGED <<dispatcherVars, layoutVars, loginVars>>

Create(limit, attach, shouldPersist) ==
    /\ Len(issued) < limit
    /\ CreateProcess(attach, shouldPersist)

\* attachToProcess(id): try { _throwIfNoPty(id).attach(); trace } catch { trace }
AttachToProcess(id) ==
    /\ IF HasPty(ptys, id)
       THEN /\ ptp' = [ptp EXCEPT ![id] = AttachCancel(@)]
            /\ client' = [client EXCEPT ![id] = IF @ = "attached" THEN @ ELSE "reattached"]
            /\ ptyLogged' = "reconnection"
       ELSE /\ ptyLogged' = "reconnection failed"
            /\ UNCHANGED <<ptp, client>>
    /\ ptyError' = "none"
    /\ fired' = << >>
    /\ UNCHANGED <<registryVars, child, term, history, orphanVars>>
    /\ UNCHANGED <<dispatcherVars, layoutVars, loginVars>>

\* detachFromProcess(id): _throwIfNoPty(id).detach()
DetachFromProcess(id) ==
    IF HasPty(ptys, id)
    THEN /\ IF DetachSchedules(ptp[id].shouldPersist)
            THEN /\ ptp' = [ptp EXCEPT ![id] = ScheduleRunner1(@)]
                 /\ UNCHANGED child
            ELSE /\ child' = [child EXCEPT ![id] = ShutdownChild(@)]
                 /\ UNCHANGED ptp
         /\ client' = [client EXCEPT ![id] = "detached"]
         /\ ptyError' = "none"
         /\ ptyLogged' = "none"
         /\ fired' = << >>
         /\ UNCHANGED <<registryVars, term, history, orphanVars>>
         /\ UNCHANGED <<dispatcherVars, layoutVars, loginVars>>
    ELSE Returns(NoPtyError)

\* start(id): _throwIfNoPty(id).start(), up to `await this._terminalProcess.start()`
\* on the first branch, to its end on the other.
Start(id) ==
    IF HasPty(ptys, id)
    THEN /\ IF StartLaunches(ptp[id])
            THEN /\ term[id].launches < MaxStarts
                 /\ term' = [term EXCEPT ![id].launches = @ + 1, ![id].starting = @ + 1]
                 /\ fired' = << >>
            ELSE /\ fired' = <<Notification(id, "ready", << >>),
                               Notification(id, "title", << >>),
                               Notification(id, "replay", GenerateReplayEvent(ptp[id].recorder))>>
                 /\ UNCHANGED term
         /\ ptyError' = "none"
         /\ ptyLogged' = "none"
         /\ UNCHANGED <<registryVars, child, ptp, history, client, orphanVars>>
         /\ UNCHANGED <<dispatcherVars, layoutVars, loginVars>>
    ELSE Returns(NoPtyError)

\* start() resumed with the result of this._terminalProcess.start(): a launch
\* error is returned to the caller, otherwise this._isStarted = true.  The
\* call resumes also when the child has exited and the process was disposed
\* in the meantime.
StartResume(id, launchError) ==
    /\ term[id].starting > 0
    /\ term' = [term EXCEPT ![id].starting = @ - 1, ![id].spawned = @ \/ ~launchError]
    /\ ptp' = [ptp EXCEPT ![id].isStarted = @ \/ MarksStarted(launchError)]
    /\ ptyError' = IF launchError THEN "launch error" ELSE "none"
    /\ ptyLogged' = "none"
    /\ fired' = << >>
    /\ UNCHANGED <<registryVars, child, history, client, orphanVars>>
    /\ UNCHANGED <<dispatcherVars, layoutVars, loginVars>>

\* triggerReplay() on a process of the registry: fires onProcessReplay with
\* the recorded events, which PtyService forwards.
TriggerReplay(id) ==
    /\ HasPty(ptys, id)
    /\ fired' = <<Notification(id, "replay", GenerateReplayEvent(ptp[id].recorder))>>
    /\ NoCallEnds
    /\ UNCHANGED <<registryVars, child, processVars, orphanVars>>
    /\ UNCHANGED <<dispatcherVars, layoutVars, loginVars>>

\* shutdown(id, immediate): _throwIfNoPty(id).shutdown(immediate)
Shutdown(id) ==
    IF HasPty(ptys, id)
    THEN /\ child' = [child EXCEPT ![id] = ShutdownChild(@)]
         /\ ptyError' = "none"
         /\ ptyLogged' = "none"
         /\ fired' = << >>
         /\ UNCHANGED <<registryVars, processVars, orphanVars>>
         /\ UNCHANGED <<dispatcherVars, layoutVars, loginVars>>
    ELSE Returns(NoPtyError)

\* What input(), resize() and acknowledgeDataEvent() share: the lookup, and
\* `if (this._inReplay) return` before the call is forwarded.
Forward(id, recorder, resized, received) ==
    IF HasPty(ptys, id)
    THEN /\ IF InReplay(ptp[id])
            THEN UNCHANGED <<ptp, term, history>>
            ELSE /\ ptp' = [ptp EXCEPT ![id].recorder = recorder]
                 /\ history' = [history EXCEPT ![id] = @ \o resized]
                 /\ term' = [term EXCEPT ![id].received = @ \o received]
         /\ ptyError' = "none"
         /\ ptyLogged' = "none"
         /\ fired' = << >>
         /\ UNCHANGED <<registryVars, child, client, orphanVars>>
         /\ UNCHANGED <<dispatcherVars, layoutVars, loginVars>>
    ELSE Returns(NoPtyError)

\* input(id, data)
Input(id, data) ==
    /\ EventCount(id) < MaxEvents
    /\ Forward(id, ptp[id].recorder, << >>, <<InputEvent(data)>>)

\* resize(id, cols, rows)
Resize(id, size) ==
    /\ EventCount(id) < MaxEvents
    /\ Forward(id, RecordResize(ptp[id].recorder, size), <<ResizeEvent(size)>>, << >>)

\* acknowledgeDataEvent(id, charCount)
AcknowledgeDataEvent(id) ==
    /\ EventCount(id) < MaxEvents
    /\ Forward(id, ptp[id].recorder, << >>, <<AckEvent>>)

\* getInitialCwd(id)
GetInitialCwd(id) == IF HasPty(ptys, id) THEN Returns("none") ELSE Returns(NoPtyError)

\* getCwd(id)
GetCwd(id) == IF HasPty(ptys, id) THEN Returns("none") ELSE Returns(NoPtyError)

\* An isOrphaned() call whose next step is a microtask already queued: its
\* check has returned, the barrier it waited on has opened, or the call before
\* it has just left the queue.  That step runs in the current turn of the
\* event loop: no timer fires and no child exits before it.  The clock does
\* not stop: the step reads Date.now() when it runs.
ResumePending(calls) ==
    /\ calls # << >>
    /\ \/ Head(calls).st \in {"returned", "queued"}
       \/ Head(calls).st = "waiting" /\ Head(calls).open

\* No microtask of any orphan detector is queued: the event loop may take up
\* a timer or the exit of a child.
TurnEnded == \A p \in PtyIds : ~ResumePending(orphanCalls[p])

\* The child writes data: PtyService fires onProcessData, the process records it.
ProcessData(id, chunk) ==
    /\ EventCount(id) < MaxEvents
    /\ child[id] = "running" /\ term[id].spawned /\ ~ptp[id].disposed
    /\ ptp' = [ptp EXCEPT ![id].recorder = RecordData(@, chunk)]
    /\ history' = [history EXCEPT ![id] = Append(@, DataEvent(chunk))]
    /\ fired' = <<Notification(id, "data", <<DataEvent(chunk)>>)>>
    /\ NoCallEnds
    /\ UNCHANGED <<registryVars, child, term, client, orphanVars>>
    /\ UNCHANGED <<dispatcherVars, layoutVars, loginVars>>

\* The child exits: PtyService fires onProcessExit, then
\* process.onProcessExit(() => { persistentTerminalProcess.dispose(); this._ptys.delete(id) }).
\* Nothing is forwarded to the child any more and what was recorded for the
\* disposed process is dropped; the start() calls that still await the child
\* are not cancelled and resume when the child answers them.
ProcessExit(id) ==
    /\ TurnEnded
    /\ child[id] \in {"running", "killed"}
    /\ child' = [child EXCEPT ![id] = "exited"]
    /\ ptys' = ptys \ {id}
    /\ ptp' = [ptp EXCEPT ![id] = DisposePtp(@)]
    /\ term' = [term EXCEPT ![id] = [NoTerm EXCEPT !.starting = term[id].starting]]
    /\ history' = [history EXCEPT ![id] = << >>]
    /\ fired' = <<Notification(id, "exit", << >>)>>
    /\ NoCallEnds
    /\ UNCHANGED <<lastPtyId, issued, ptyDisposed, client, orphanVars>>
    /\ UNCHANGED <<dispatcherVars, layoutVars, loginVars>>

\* shutdownAll(): this.dispose(), which runs the registered disposable once:
\* pty.shutdown(true) for every pty, then this._ptys.clear().
ShutdownAll ==
    /\ IF ptyDisposed
       THEN UNCHANGED <<ptys, child, ptyDisposed>>
       ELSE /\ child' = [p \in PtyIds |-> IF p \in ptys THEN ShutdownChild(child[p])
                                          ELSE child[p]]
            /\ ptys' = {}
            /\ ptyDisposed' = TRUE
    /\ ptyError' = "none"
    /\ ptyLogged' = "none"
    /\ fired' = << >>
    /\ UNCHANGED <<lastPtyId, issued, processVars, orphanVars>>
    /\ UNCHANGED <<dispatcherVars, layoutVars, loginVars>>

\* The long grace timer fires: this.shutdown(true)
DisconnectRunner1(id) ==
    /\ TurnEnded
    /\ ptp[id].runner1
    /\ ptp' = [ptp EXCEPT ![id].runner1 = FALSE]
    /\ child' = [child EXCEPT ![id] = ShutdownChild(@)]
    /\ fired' = << >>
    /\ NoCallEnds
    /\ UNCHANGED <<registryVars, term, history, client, orphanVars>>
    /\ UNCHANGED <<dispatcherVars, layoutVars, loginVars>>

\* The short grace timer fires: this.shutdown(true)
DisconnectRunner2(id) ==
    /\ TurnEnded
    /\ ptp[id].runner2
    /\ ptp' = [ptp EXCEPT ![id].runner2 = FALSE]
    /\ child' = [child EXCEPT ![id] = ShutdownChild(@)]
    /\ fired' = << >>
    /\ NoCallEnds
    /\ UNCHANGED <<registryVars, term, history, client, orphanVars>>
    /\ UNCHANGED <<dispatcherVars, layoutVars, loginVars>>

\* reduceGraceTime() on a process of the registry
ReduceGraceTime(id) ==
    /\ HasPty(ptys, id)
    /\ ptp' = [ptp EXCEPT ![id].runner2 = IF ~@ /\ ptp[id].runner1 THEN TRUE ELSE @]
    /\ fired' = << >>
    /\ NoCallEnds
    /\ UNCHANGED <<registryVars, child, term, history, client, orphanVars>>
    /\ UNCHANGED <<dispatcherVars, layoutVars, loginVars>>

\* _isOrphaned() from its start to its return or to `await barrier.wait()`,
\* for a call made with `overlapped`, the calls `rest` being queued behind it.
\* A check that returns true has resolved its promise, but the call keeps its
\* place in the queue, and its caller is without the answer, until the
\* reactions to that promise have run.
OrphanCheck(id, overlapped, rest) ==
    IF TimerArmed(ptp[id])
    THEN /\ orphanCalls' = [orphanCalls EXCEPT
                               ![id] = <<Returned(TRUE, overlapped)>> \o rest]
         /\ UNCHANGED <<ptp, orphanAnswers, probes>>
    ELSE LET fresh == ptp[id].barrier = "null"
             barrier == IF fresh THEN "closed" ELSE ptp[id].barrier
         IN /\ ptp' = [ptp EXCEPT ![id].barrier = barrier,
                                  ![id].replyTime = IF fresh THEN "zero" ELSE @]
            /\ probes' = [probes EXCEPT ![id] = IF fresh THEN @ + 1 ELSE @]
            /\ orphanCalls' = [orphanCalls EXCEPT
                                  ![id] = <<OrphanCall("waiting", barrier = "open", overlapped)>>
                                          \o rest]
            /\ UNCHANGED orphanAnswers

\* isOrphaned() on a process of the registry: this._orphanRequestQueue.queue(...),
\* which runs the check at once when no other call is in the queue.
IsOrphaned(id) ==
    /\ HasPty(ptys, id)
    /\ Len(orphanCalls[id]) + Len(orphanAnswers[id]) < MaxOrphanCalls
    /\ IF orphanCalls[id] = << >>
       THEN OrphanCheck(id, FALSE, << >>)
       ELSE /\ orphanCalls' = [orphanCalls EXCEPT ![id] = Append(@, OrphanCall("queued", FALSE, TRUE))]
            /\ UNCHANGED <<ptp, orphanAnswers, probes>>
    /\ fired' = << >>
    /\ NoCallEnds
    /\ UNCHANGED <<registryVars, child, term, history, client>>
    /\ UNCHANGED <<dispatcherVars, layoutVars, loginVars>>

\* The queue starts the next call once the one before it has resolved.
OrphanQueueNext(id) ==
    /\ orphanCalls[id] # << >>
    /\ Head(orphanCalls[id]).st = "queued"
    /\ OrphanCheck(id, Head(orphanCalls[id]).overlapped, Tail(orphanCalls[id]))
    /\ fired' = << >>
    /\ NoCallEnds
    /\ UNCHANGED <<registryVars, child, term, history, client>>
    /\ UNCHANGED <<dispatcherVars, layoutVars, loginVars>>

\* _isOrphaned() resumed after `await this._orphanQuestionBarrier.wait()`,
\* the barrier being open: it returns Date.now() - replyTime > 500, computed
\* now.  The call keeps its place in the queue until the queue has reacted to
\* the promise of the check.
IsOrphanedBarrierResume(id) ==
    /\ orphanCalls[id] # << >>
    /\ Head(orphanCalls[id]).st = "waiting" /\ Head(orphanCalls[id]).open
    /\ orphanCalls' = [orphanCalls EXCEPT
                          ![id] = <<Returned(OrphanedByReplyTime(ptp[id].replyTime),
                                             Head(@).overlapped)>> \o Tail(@)]
    /\ fired' = << >>
    /\ NoCallEnds
    /\ UNCHANGED <<registryVars, child, processVars, orphanAnswers, probes>>
    /\ UNCHANGED <<dispatcherVars, layoutVars, loginVars>>

\* isOrphaned() resumed with the result of its check, which leaves the queue:
\* the true the check returned at once, or what _isOrphaned() returned when
\* it resumed from the barrier.
IsOrphanedResume(id) ==
    /\ orphanCalls[id] # << >>
    /\ Head(orphanCalls[id]).st = "returned"
    /\ orphanAnswers' = [orphanAnswers EXCEPT
                            ![id] = Append(@, [value |-> Head(orphanCalls[id]).value,
                                               overlapped |-> Head(orphanCalls[id]).overlapped])]
    /\ orphanCalls' = [orphanCalls EXCEPT ![id] = Tail(@)]
    /\ fired' = << >>
    /\ NoCallEnds
    /\ UNCHANGED <<registryVars, child, processVars, probes>>
    /\ UNCHANGED <<dispatcherVars, layoutVars, loginVars>>

\* The barrier the field refers to opens: the call waiting on it may resume.
OpenBarrier_NobodyWoken(calls) == calls

OpenBarrier(calls) ==
    IF calls # << >> /\ Head(calls).st = "waiting"
    THEN <<[Head(calls) EXCEPT !.open = TRUE]>> \o Tail(calls)
    ELSE calls

\* orphanQuestionReply() on a process of the registry
OrphanQuestionReply(id) ==
    /\ HasPty(ptys, id)
    /\ ptp' = [ptp EXCEPT ![id].replyTime = "recent", ![id].barrier = "null"]
    /\ orphanCalls' = [orphanCalls EXCEPT
                          ![id] = IF ptp[id].barrier # "null" THEN OpenBarrier(@) ELSE @]
    /\ fired' = << >>
    /\ NoCallEnds
    /\ UNCHANGED <<registryVars, child, term, history, client, orphanAnswers, probes>>
    /\ UNCHANGED <<dispatcherVars, layoutVars, loginVars>>

\* The AutoOpenBarrier opens by itself after its timeout.
BarrierTimeout(id) ==
    /\ TurnEnded
    /\ ptp[id].barrier = "closed"
    /\ ptp' = [ptp EXCEPT ![id].barrier = "open"]
    /\ orphanCalls' = [orphanCalls EXCEPT ![id] = OpenBarrier(@)]
    /\ fired' = << >>
    /\ NoCallEnds
    /\ UNCHANGED <<registryVars, child, term, history, client, orphanAnswers, probes>>
    /\ UNCHANGED <<dispatcherVars, layoutVars, loginVars>>

\* More than 500ms pass since the last orphanQuestionReply().  This needs no
\* turn of the event loop: the code that runs between the reply and the
\* continuation of a waiting isOrphaned() call takes its time too.
TimePasses(id) ==
    /\ ptp[id].replyTime = "recent"
    /\ ptp' = [ptp EXCEPT ![id].replyTime = "old"]
    /\ fired' = << >>
    /\ NoCallEnds
    /\ UNCHANGED <<registryVars, child, term, history, client, orphanVars>>
    /\ UNCHANGED <<dispatcherVars, layoutVars, loginVars>>

\* this._workspaceLayoutInfos.set(args.workspaceId, args)
LayoutsAfterSet_EveryWorkspace(stored, ws, tabs) == [w \in Workspaces |-> StoredLayout(tabs)]

LayoutsAfterSet(stored, ws, tabs) == [stored EXCEPT ![ws] = StoredLayout(tabs)]

\* setTerminalLayoutInfo(args)
SetTerminalLayoutInfo(ws, tabs) ==
    /\ layoutSets' = layoutSets + 1
    /\ layouts' = LayoutsAfterSet(layouts, ws, tabs)
    /\ ptyError' = "none"
    /\ ptyLogged' = "none"
    /\ fired' = << >>
    /\ UNCHANGED <<registryVars, child, processVars, orphanVars>>
    /\ UNCHANGED <<layoutCall, layoutResult, layoutCalls>>
    /\ UNCHANGED <<dispatcherVars, loginVars>>

\* A behaviour makes at most `limit` setTerminalLayoutInfo calls.
SetLayout(limit, ws, tabs) ==
    /\ layoutSets < limit
    /\ SetTerminalLayoutInfo(ws, tabs)

\* getTerminalLayoutInfo(args) up to its first await.  Without a stored layout
\* it returns undefined.  Otherwise every _expandTerminalInstance runs at once
\* up to `await this._terminalToDto(...)`: the lookup of each stored terminal
\* is made now, and getCwd() and isOrphaned() are called on each process
\* found.  The calls of this model do not overlap one another.
GetTerminalLayoutInfo(ws) ==
    /\ ~layoutCall.pending
    /\ layoutCalls < MaxLayoutCalls
    /\ layoutCalls' = layoutCalls + 1
    /\ IF layouts[ws].set
       THEN LET tabs == layouts[ws].tabs
                base == [id \in PtyIds |-> Len(orphanAnswers[id]) + Len(orphanCalls[id])]
                made == [id \in PtyIds |->
                            OrphanCallsMade(id, IF HasPty(ptys, id) THEN RefCount(tabs, id)
                                                ELSE 0)]
            IN /\ layoutCall' =
                      [pending |-> TRUE, workspace |-> ws, stored |-> tabs, live |-> ptys,
                       tabs |-> [i \in 1..Len(tabs) |->
                                    [j \in 1..Len(tabs[i]) |->
                                        ExpandTerminalInstance(ptys, tabs, i, j, base)]]]
               /\ ptp' = [id \in PtyIds |-> made[id].ptp]
               /\ orphanCalls' = [id \in PtyIds |-> made[id].calls]
               /\ orphanAnswers' = [id \in PtyIds |-> made[id].answers]
               /\ probes' = [id \in PtyIds |-> made[id].probes]
               /\ UNCHANGED layoutResult
       ELSE /\ layoutResult' = LayoutResult("undefined", ws, << >>, ptys, << >>)
            /\ UNCHANGED <<layoutCall, ptp, orphanVars>>
    /\ ptyError' = "none"
    /\ ptyLogged' = "none"
    /\ fired' = << >>
    /\ UNCHANGED <<registryVars, child, term, history, client, layouts, layoutSets>>
    /\ UNCHANGED <<dispatcherVars, loginVars>>

\* Every descriptor a getTerminalLayoutInfo call awaits has arrived.
LayoutAnswered(call) ==
    \A i \in 1..Len(call.tabs) : \A j \in 1..Len(call.tabs[i]) :
        call.tabs[i][j].terminal # 0
            => Len(orphanAnswers[call.tabs[i][j].terminal]) >= call.tabs[i][j].call

\* getTerminalLayoutInfo resumed after `await Promise.all(...)`: each tab keeps
\* the terminals that are not null, and the tabs left without one are dropped.
GetTerminalLayoutInfoResume ==
    /\ layoutCall.pending
    /\ LayoutAnswered(layoutCall)
    /\ layoutResult' =
           LayoutResult("tabs", layoutCall.workspace, layoutCall.stored, layoutCall.live,
                        SelectSeq([i \in 1..Len(layoutCall.tabs) |->
                                      ExpandTerminalTab(layoutCall.tabs[i], orphanAnswers)],
                                  KeepTab))
    /\ layoutCall' = NoLayoutCall
    /\ ptyError' = "none"
    /\ ptyLogged' = "none"
    /\ fired' = << >>
    /\ UNCHANGED <<registryVars, child, processVars, orphanVars>>
    /\ UNCHANGED <<layouts, layoutCalls, layoutSets>>
    /\ UNCHANGED <<dispatcherVars, loginVars>>

\* limiter.removeToken(): the buckets after it, and what it returned.
RemoveTokenCall ==
    /\ removeResults' = Append(removeResults, RemoveTokenResult(minuteLimiter, hourLimiter))
    /\ minuteLimiter' = MinuteAfterRemove(minuteLimiter)
    /\ hourLimiter' = HourAfterRemove(minuteLimiter, hourLimiter)

\* removeToken() called on the RateLimiter by itself, as its unit test does.
RemoveToken ==
    /\ Len(removeResults) < MaxRemoveCalls
    /\ RemoveTokenCall
    /\ UNCHANGED requests
    /\ UNCHANGED <<dispatcherVars, ptyVars, layoutVars>>

\* router.post("/") up to its first await: a request that is rate limited or
\* has no password throws and goes on to render the error (await getRoot);
\* any other awaits handlePasswordValidation.
LoginPost(r, password) ==
    /\ requests[r].pc \in {"idle", "done"}
    /\ requests' = [requests EXCEPT ![r] =
           IF ~CanTry(minuteLimiter, hourLimiter)
           THEN Request("rendering", password, "Login rate limited!", FALSE)
           ELSE IF password = "missing"
           THEN Request("rendering", password, "Missing password", FALSE)
           ELSE Request("validating", password, "none", FALSE)]
    /\ UNCHANGED <<minuteLimiter, hourLimiter, removeResults>>
    /\ UNCHANGED <<dispatcherVars, ptyVars, layoutVars>>

\* The handler resumed with the result of handlePasswordValidation: a valid
\* password sets the session cookie and redirects; an invalid one removes a
\* token and throws, and the handler goes on to render the error.
LoginPostValidated(r) ==
    /\ requests[r].pc = "validating"
    /\ IF requests[r].password = "right"
       THEN /\ requests' = [requests EXCEPT ![r] = Request("done", @.password, "none", TRUE)]
            /\ UNCHANGED <<minuteLimiter, hourLimiter, removeResults>>
       ELSE /\ Len(removeResults) < MaxRemoveCalls
            /\ RemoveTokenCall
            /\ requests' = [requests EXCEPT ![r] =
                                Request("rendering", @.password, "Incorrect password", FALSE)]
    /\ UNCHANGED <<dispatcherVars, ptyVars, layoutVars>>

\* The catch clause resumed after `await getRoot(req, error)`: res.send(renderedHtml)
LoginPostRendered(r) ==
    /\ requests[r].pc = "rendering"
    /\ requests' = [requests EXCEPT ![r].pc = "done"]
    /\ UNCHANGED <<minuteLimiter, hourLimiter, removeResults>>
    /\ UNCHANGED <<dispatcherVars, ptyVars, layoutVars>>

\* The registry: processes are created, attached to, detached from and shut
\* down; children exit; the long grace timer fires.
PtyNext ==
    \/ \E attach, shouldPersist \in BOOLEAN : Create(MaxPtys, attach, shouldPersist)
    \/ \E id \in PtyIds : AttachToProcess(id)
    \/ \E id \in PtyIds : DetachFromProcess(id)
    \/ \E id \in PtyIds : Shutdown(id)
    \/ \E id \in PtyIds : ProcessExit(id)
    \/ \E id \in PtyIds : DisconnectRunner1(id)
    \/ ShutdownAll

PtySpec == Init /\ [][PtyNext]_vars

\* A child that was killed exits.
KilledChildExits(id) == child[id] = "killed" /\ ProcessExit(id)

\* The registry with its timers and children making progress: an armed timer
\* that is not cancelled fires, and a killed child exits.
PtyLiveSpec ==
    /\ Init /\ [][PtyNext]_vars
    /\ \A id \in PtyIds : WF_vars(DisconnectRunner1(id))
    /\ \A id \in PtyIds : WF_vars(KilledChildExits(id))

\* One process in detail: every call of PtyService that takes an id, with the
\* data the child writes.
ProcNext ==
    \/ \E shouldPersist \in BOOLEAN : Create(MaxProcs, FALSE, shouldPersist)
    \/ \E id \in PtyIds : AttachToProcess(id)
    \/ \E id \in PtyIds : DetachFromProcess(id)
    \/ \E id \in PtyIds : Start(id)
    \/ \E id \in PtyIds, launchError \in BOOLEAN : StartResume(id, launchError)
    \/ \E id \in PtyIds : TriggerReplay(id)
    \/ \E id \in PtyIds : Shutdown(id)
    \/ \E id \in PtyIds, data \in Inputs : Input(id, data)
    \/ \E id \in PtyIds, size \in Sizes : Resize(id, size)
    \/ \E id \in PtyIds : AcknowledgeDataEvent(id)
    \/ \E id \in PtyIds : GetInitialCwd(id)
    \/ \E id \in PtyIds : GetCwd(id)
    \/ \E id \in PtyIds, chunk \in Chunks : ProcessData(id, chunk)
    \/ \E id \in PtyIds : ProcessExit(id)
    \/ \E id \in PtyIds : DisconnectRunner1(id)
    \/ ShutdownAll

ProcSpec == Init /\ [][ProcNext]_vars

\* One process, its grace timers and its orphan detector.
OrphanNext ==
    \/ \E shouldPersist \in BOOLEAN : Create(MaxProcs, FALSE, shouldPersist)
    \/ \E id \in PtyIds : AttachToProcess(id)
    \/ \E id \in PtyIds : DetachFromProcess(id)
    \/ \E id \in PtyIds : ReduceGraceTime(id)
    \/ \E id \in PtyIds : DisconnectRunner1(id)
    \/ \E id \in PtyIds : DisconnectRunner2(id)
    \/ \E id \in PtyIds : IsOrphaned(id)
    \/ \E id \in PtyIds : OrphanQueueNext(id)
    \/ \E id \in PtyIds : IsOrphanedBarrierResume(id)
    \/ \E id \in PtyIds : IsOrphanedResume(id)
    \/ \E id \in PtyIds : OrphanQuestionReply(id)
    \/ \E id \in PtyIds : BarrierTimeout(id)
    \/ \E id \in PtyIds : TimePasses(id)
    \/ \E id \in PtyIds : ProcessExit(id)

OrphanSpec == Init /\ [][OrphanNext]_vars

\* The same with the event loop making progress: a barrier that stays closed
\* times out, a check whose barrier is open resumes, a call whose check has
\* returned resumes, and the queue starts the next call.
\* orphanQuestionReply() may never be called.
OrphanLiveSpec ==
    /\ Init /\ [][OrphanNext]_vars
    /\ \A id \in PtyIds : WF_vars(BarrierTimeout(id))
    /\ \A id \in PtyIds : WF_vars(IsOrphanedBarrierResume(id))
    /\ \A id \in PtyIds : WF_vars(IsOrphanedResume(id))
    /\ \A id \in PtyIds : WF_vars(OrphanQueueNext(id))

\* Several processes, their grace timers and the ways their lives end.
GraceNext ==
    \/ \E shouldPersist \in BOOLEAN : Create(MaxGraceProcs, FALSE, shouldPersist)
    \/ \E id \in PtyIds : AttachToProcess(id)
    \/ \E id \in PtyIds : DetachFromProcess(id)
    \/ \E id \in PtyIds : ReduceGraceTime(id)
    \/ \E id \in PtyIds : DisconnectRunner1(id)
    \/ \E id \in PtyIds : DisconnectRunner2(id)
    \/ \E id \in PtyIds : Shutdown(id)
    \/ \E id \in PtyIds : ProcessExit(id)
    \/ ShutdownAll

GraceSpec == Init /\ [][GraceNext]_vars

\* The workspace layouts: one workspace, the processes its layout refers to,
\* their grace timers and orphan detectors.
LayoutNext ==
    \/ \E shouldPersist \in BOOLEAN : Create(MaxProcs, FALSE, shouldPersist)
    \/ \E id \in PtyIds : DetachFromProcess(id)
    \/ \E id \in PtyIds : ProcessExit(id)
    \/ \E tabs \in StoredLayouts : SetLayout(MaxLayoutSets, "w1", tabs)
    \/ GetTerminalLayoutInfo("w1")
    \/ GetTerminalLayoutInfoResume
    \/ \E id \in PtyIds : OrphanQueueNext(id)
    \/ \E id \in PtyIds : IsOrphanedBarrierResume(id)
    \/ \E id \in PtyIds : IsOrphanedResume(id)
    \/ \E id \in PtyIds : OrphanQuestionReply(id)
    \/ \E id \in PtyIds : BarrierTimeout(id)

LayoutSpec == Init /\ [][LayoutNext]_vars

\* The layouts of two workspaces, set again and again and read back, with one
\* process they may refer to.
WorkspaceNext ==
    \/ Create(MaxProcs, FALSE, TRUE)
    \/ \E id \in PtyIds : ProcessExit(id)
    \/ \E ws \in Workspaces, tabs \in SmallLayouts : SetLayout(MaxWorkspaceSets, ws, tabs)
    \/ \E ws \in Workspaces : GetTerminalLayoutInfo(ws)
    \/ GetTerminalLayoutInfoResume
    \/ \E id \in PtyIds : IsOrphanedBarrierResume(id)
    \/ \E id \in PtyIds : IsOrphanedResume(id)
    \/ \E id \in PtyIds : BarrierTimeout(id)

WorkspaceSpec == Init /\ [][WorkspaceNext]_vars

\* The login route: its RateLimiter and the POST requests in progress.
LoginNext ==
    \/ RemoveToken
    \/ \E r \in RequestIds, password \in Passwords : LoginPost(r, password)
    \/ \E r \in RequestIds : LoginPostValidated(r)
    \/ \E r \in RequestIds : LoginPostRendered(r)

LoginSpec == Init /\ [][LoginNext]_vars

(***************************************************************************)
(* Notions the properties are stated with.                                 *)
(***************************************************************************)
\* The token is in the dispatcher's table of the type.
Registered(tb, dtype, token) == dtype \in DOMAIN tb /\ MapHas(tb[dtype], token)

\* The Connection is the one the table holds under its type and token.
RegisteredAs(c) ==
    /\ Registered(table, conn[c].type, conn[c].token)
    /\ MapGet(table[conn[c].type], conn[c].token) = c

\* Every (type, token, connection) the table holds.
Registrations(tb) ==
    UNION {{<<t, tb[t][i].token, tb[t][i].c>> : i \in DOMAIN tb[t]} : t \in DOMAIN tb}

\* The last message written to a socket.
LastSent(sn, s) == sn[s][Len(sn[s])]

\* The call on the socket ended in handleWebSocket's catch with this reason.
FailedWith(s, reason) ==
    /\ hs[s].pc = "failed"
    /\ sent[s] # << >>
    /\ LastSent(sent, s) = ErrorMessage(reason)

\* Live Connections of a type that carry an offline timestamp.
OfflineAlive(cn, dtype) ==
    {c \in ConnIds : cn[c].type = dtype /\ ~cn[c].disposed /\ cn[c].offline # 0}

\* The socket completed a reconnection handshake: its call returned from the
\* reconnection branch, so the socket was handed to an existing Connection and
\* created none.
Rebound(s) == hs[s].pc = "done" /\ conn[s] = NoConn

(***************************************************************************)
(* C1.  In every reachable state there is at most one live (not disposed)  *)
(* Connection per (type, token), under every interleaving of handshakes.   *)
(***************************************************************************)
C1_OneLiveConnectionPerToken ==
    \A c1, c2 \in ConnIds :
        (/\ Live(c1) /\ Live(c2)
         /\ conn[c1].type = conn[c2].type
         /\ conn[c1].token = conn[c2].token) => c1 = c2

(***************************************************************************)
(* C2.  A handshake with reconnection=false whose (type, token) is in the  *)
(* table when connect() looks it up fails with 'Duplicate reconnection     *)
(* token': connect() throws that error having written nothing, and the     *)
(* call does nothing more but run its catch block, where the error is the  *)
(* only message written and the socket is torn down; in both steps every   *)
(* Connection, the table and every other socket stay as they were.         *)
(***************************************************************************)
C2_DuplicateTokenFails ==
    [][/\ \A s \in SocketIds :
            (/\ hs[s].pc = "connect"
             /\ ~hs[s].reconnection
             /\ Registered(table, hs[s].dtype, hs[s].token)
             /\ Connect(s))
            => /\ hs'[s] = Thrown("Duplicate reconnection token")
               /\ sent'[s] = << >>
               /\ conn' = conn
               /\ table' = table
               /\ sockets' = sockets
       /\ \A s \in SocketIds :
            (hs[s] = Thrown("Duplicate reconnection token") /\ hs'[s] # hs[s])
            => /\ hs'[s].pc = "failed"
               /\ sent'[s] = <<ErrorMessage("Duplicate reconnection token")>>
               /\ sockets'[s] = "disposed"
               /\ conn' = conn
               /\ table' = table
               /\ \A r \in SocketIds \ {s} : sockets'[r] = sockets[r]]_vars

\* A duplicate was refused while the Connection registered under a token is
\* still bound to its open socket.
C2_Witness ==
    \E s \in SocketIds, c \in ConnIds :
        /\ FailedWith(s, "Duplicate reconnection token")
        /\ Live(c) /\ RegisteredAs(c)
        /\ conn[c].socket # 0 /\ sockets[conn[c].socket] = "open"

(***************************************************************************)
(* C3.  A handshake with reconnection=true whose token is not in the table *)
(* of the requested type when connect() looks it up fails with             *)
(* 'Unrecognized reconnection token', also when the token is registered    *)
(* under the other type: connect() throws that error having written        *)
(* nothing, and the call does nothing more but run its catch block, where  *)
(* the error is the only message written and the socket is torn down; no   *)
(* Connection is created or registered in either step.                     *)
(***************************************************************************)
C3_UnknownTokenFails ==
    [][/\ \A s \in SocketIds :
            (/\ hs[s].pc = "connect"
             /\ hs[s].reconnection
             /\ hs[s].dtype \in ConnTypes
             /\ ~Registered(table, hs[s].dtype, hs[s].token)
             /\ Connect(s))
            => /\ hs'[s] = Thrown("Unrecognized reconnection token")
               /\ sent'[s] = << >>
               /\ conn' = conn
               /\ Registrations(table') = Registrations(table)
       /\ \A s \in SocketIds :
            (hs[s] = Thrown("Unrecognized reconnection token") /\ hs'[s] # hs[s])
            => /\ hs'[s].pc = "failed"
               /\ sent'[s] = <<ErrorMessage("Unrecognized reconnection token")>>
               /\ sockets'[s] = "disposed"
               /\ conn' = conn
               /\ Registrations(table') = Registrations(table)]_vars

\* A reconnection was refused as unrecognized, the extension host's table was
\* asked for and is empty, and the token is registered under Management: the
\* refused token is one registered under the other type only.
C3_Witness ==
    \E s \in SocketIds :
        /\ FailedWith(s, "Unrecognized reconnection token")
        /\ "ExtensionHost" \in DOMAIN table
        /\ table["ExtensionHost"] = << >>
        /\ \A token \in Tokens : Registered(table, "Management", token)

(***************************************************************************)
(* C4.  connect() never attempts to reconnect onto a Connection that is no *)
(* longer in the table: the existence check and the rebind are one step,   *)
(* so no reconnection ends in the failed lookup of its token.              *)
(***************************************************************************)
C4_ReconnectNeverMissesConnection ==
    \A s \in SocketIds : ~FailedWith(s, "TypeError")

C6_FailureLeavesNothingBehind ==
    [][\A s \in SocketIds :
          /\ (hs[s].pc # "thrown" /\ hs'[s].pc = "thrown")
             => /\ Registrations(table') = Registrations(table)
                /\ conn' = conn
          /\ (hs[s].pc # "failed" /\ hs'[s].pc = "failed")
             => /\ hs[s].pc = "thrown"
                /\ sent'[s] = Append(sent[s], ErrorMessage(hs[s].error))
                /\ sockets'[s] = "disposed"
                /\ Registrations(table') = Registrations(table)
                /\ conn' = conn]_vars

\* A duplicate token and an unrecognized connection type were both refused, and
\* the registered Connection is still there.
C6_Witness ==
    \E s1, s2 \in SocketIds, c \in ConnIds :
        /\ FailedWith(s1, "Duplicate reconnection token")
        /\ FailedWith(s2, "Unrecognized connection type")
        /\ sockets[s1] = "disposed" /\ sockets[s2] = "disposed"
        /\ Live(c) /\ RegisteredAs(c)

(***************************************************************************)
(* C7.  A Connection whose socket closed is offline but stays registered   *)
(* under its token for as long as it is not disposed: its table entry goes *)
(* only when the Connection itself is closed, so a reconnection with its   *)
(* token finds it.                                                         *)
(***************************************************************************)
C7_OfflineStaysRegistered ==
    \A c \in ConnIds : (Live(c) /\ conn[c].offline # 0) => RegisteredAs(c)

(***************************************************************************)
(* C8.  Immediately after every registration of a new Connection of a      *)
(* type, at most maxExtraOfflineConnections offline Connections of that    *)
(* type are still alive.                                                   *)
(***************************************************************************)
C8_OfflineBoundAfterRegistration ==
    [][\A s \in SocketIds :
          (hs[s].pc = "awaitOkNew" /\ hs'[s].pc = "done")
          => Cardinality(OfflineAlive(conn', hs[s].dtype)) <= maxExtraOfflineConnections]_vars

(***************************************************************************)
(* C9.  Every live Connection is either bound to one open socket and       *)
(* carries no offline timestamp, or is offline and bound to no socket; no  *)
(* socket is bound to two Connections; and a Connection's type and token   *)
(* never change.                                                           *)
(***************************************************************************)
WellBound(cn, sk, c) ==
    \/ /\ cn[c].socket # 0
       /\ sk[cn[c].socket] = "open"
       /\ cn[c].offline = 0
    \/ /\ cn[c].socket = 0
       /\ cn[c].offline # 0

LiveIn(cn, c) == cn[c].type # "none" /\ ~cn[c].disposed

C9_BoundOrOffline ==
    [][\A c \in ConnIds :
          /\ LiveIn(conn', c) => WellBound(conn', sockets', c)
          /\ \A d \in ConnIds :
                (LiveIn(conn', c) /\ LiveIn(conn', d) /\ c # d /\ conn'[c].socket # 0)
                => conn'[c].socket # conn'[d].socket
          /\ (LiveIn(conn, c) /\ LiveIn(conn', c))
             => (conn'[c].token = conn[c].token /\ conn'[c].type = conn[c].type)]_vars

(***************************************************************************)
(* C10.  The ids createProcess returns are strictly increasing, hence      *)
(* never repeated, whatever creations, exits, shutdowns and shutdownAll    *)
(* happen in between.                                                      *)
(***************************************************************************)
C10_IdsStrictlyIncreasing ==
    \A i, j \in DOMAIN issued : i < j => issued[i] < issued[j]

\* Ids were issued after an earlier process had exited and after shutdownAll
\* had emptied the registry.
C10_Witness ==
    /\ Len(issued) >= 3
    /\ ptyDisposed
    /\ child[issued[1]] = "exited"
    /\ issued[Len(issued)] \in ptys

(***************************************************************************)
(* C11.  detachFromProcess, start, shutdown, input, resize,                *)
(* acknowledgeDataEvent, getInitialCwd and getCwd called with an id that   *)
(* is not in the registry throw the unknown-process error and change       *)
(* neither the registry nor any process.                                   *)
(***************************************************************************)
\* One of the eight calls, made with this id.
CallWithId(id) ==
    \/ DetachFromProcess(id)
    \/ Start(id)
    \/ Shutdown(id)
    \/ \E data \in Inputs : Input(id, data)
    \/ \E size \in Sizes : Resize(id, size)
    \/ AcknowledgeDataEvent(id)
    \/ GetInitialCwd(id)
    \/ GetCwd(id)

C11_UnknownIdRejected ==
    [][\A id \in PtyIds :
          (id \notin ptys /\ CallWithId(id))
          => /\ ptyError' = NoPtyError
             /\ UNCHANGED <<registryVars, child, processVars, orphanVars>>]_vars

\* A call was rejected when no id was known: the one process created had been
\* removed by shutdownAll while its child was still alive and its recorder held
\* events.
C11_Witness ==
    /\ ptyError = NoPtyError
    /\ ptys = {}
    /\ ptyDisposed
    /\ child[1] = "killed"
    /\ ptp[1].recorder # << >>

(***************************************************************************)
(* C12.  attachToProcess called with an id that is not in the registry     *)
(* fails: the unknown-process error reaches the caller.                    *)
(***************************************************************************)
C12_AttachUnknownIdFails ==
    [][\A id \in PtyIds :
          (id \notin ptys /\ AttachToProcess(id)) => ptyError' = NoPtyError]_vars

(***************************************************************************)
(* C13.  Detaching a process created with shouldPersist=false shuts it     *)
(* down at once and arms no grace timer, and from then on no               *)
(* attachToProcess with its id reaches the process, also not before the    *)
(* child's exit removes it from the registry.                              *)
(***************************************************************************)
C13_EphemeralDetachIsFinal ==
    [][\A id \in PtyIds :
          /\ (DetachFromProcess(id) /\ id \in ptys /\ ~ptp[id].shouldPersist)
             => /\ child'[id] # "running"
                /\ ~ptp'[id].runner1 /\ ~ptp'[id].runner2
          /\ (AttachToProcess(id) /\ ~ptp[id].shouldPersist /\ client[id] = "detached")
             => /\ ptyLogged' = "reconnection failed"
                /\ client'[id] = "detached"]_vars

(***************************************************************************)
(* C14.  The replay a started process emits when start() is called again   *)
(* (the way a reattaching client asks for it) is everything the child      *)
(* wrote and every size it was given since the process was created, in     *)
(* order, nothing dropped, duplicated or reordered; and input() on a       *)
(* process of the registry is forwarded to the child, after a              *)
(* reattachment as before it.                                              *)
(***************************************************************************)
C14_ReplayIsComplete ==
    [][\A id \in PtyIds :
          /\ (id \in ptys /\ ptp[id].isStarted /\ Start(id))
             => \E i \in DOMAIN fired' :
                   fired'[i] = Notification(id, "replay", history[id])
          /\ \A data \in Inputs :
                (id \in ptys /\ Input(id, data))
                => term'[id].received = Append(term[id].received, InputEvent(data))]_vars

\* A persistent process was detached and reattached, took input, was resized
\* and then wrote data, and its child is still running; the last start() emitted
\* the replay of the resize and the data, in that order.
C14_Witness ==
    \E size \in Sizes, chunk \in Chunks :
        /\ ptp[1].shouldPersist
        /\ client[1] = "reattached"
        /\ child[1] = "running"
        /\ term[1].received # << >>
        /\ Len(fired) = 3
        /\ fired[3] = Notification(1, "replay", <<ResizeEvent(size), DataEvent(chunk)>>)

(***************************************************************************)
(* C15.  Once a start() has succeeded, no start() launches the child       *)
(* again: a later start() on the process returns no error, launches        *)
(* nothing and fires the ready notification, the title notification and    *)
(* one replay of the recorded events, in that order.                       *)
(***************************************************************************)
C15_StartIsIdempotent ==
    [][\A id \in PtyIds :
          /\ ptp[id].isStarted => term'[id].launches <= term[id].launches
          /\ (id \in ptys /\ ptp[id].isStarted /\ Start(id))
             => /\ ptyError' = "none"
                /\ term' = term
                /\ fired' = <<Notification(id, "ready", << >>),
                              Notification(id, "title", << >>),
                              Notification(id, "replay", ptp[id].recorder)>>]_vars

\* start() was called on a process that had been launched once and had recorded
\* data: it replayed, and the child has still been launched once only.
C15_Witness ==
    /\ ptp[1].isStarted
    /\ term[1].launches = 1
    /\ ptp[1].recorder # << >>
    /\ Len(fired) = 3
    /\ fired[1].event = "ready" /\ fired[2].event = "title" /\ fired[3].event = "replay"

(***************************************************************************)
(* C16.  detachFromProcess on a shouldPersist=true process arms the long   *)
(* grace timer and leaves the child alone; when that timer fires the       *)
(* child is shut down; and a registered process whose long timer is armed  *)
(* is eventually either reattached or, its child having exited, unknown    *)
(* to the registry.                                                        *)
(***************************************************************************)
C16_GraceTimerEndsProcess ==
    /\ [][\A id \in PtyIds :
             /\ (DetachFromProcess(id) /\ id \in ptys /\ ptp[id].shouldPersist)
                => (ptp'[id].runner1 /\ child'[id] = child[id])
             /\ DisconnectRunner1(id) => child'[id] # "running"]_vars
    /\ \A id \in PtyIds :
          (ptp[id].runner1 /\ id \in ptys)
          ~> (client[id] = "reattached" \/ id \notin ptys)

\* The long timer of a detached persistent process fired with no attach since
\* the detach: the child was killed and the process is still registered.
C16_Witness ==
    \E id \in PtyIds :
        /\ id \in ptys
        /\ ptp[id].shouldPersist
        /\ client[id] = "detached"
        /\ ~ptp[id].runner1
        /\ child[id] = "killed"

(***************************************************************************)
(* C17.  attachToProcess on a process of the registry cancels its long     *)
(* grace timer, shuts nothing down and emits no replay; and the long       *)
(* timer only ever fires while the client is detached, that is, never      *)
(* for a detachment that was followed by an attach.                        *)
(***************************************************************************)
C17_AttachCancelsLongTimer ==
    [][\A id \in PtyIds :
          /\ (AttachToProcess(id) /\ id \in ptys)
             => /\ ~ptp'[id].runner1
                /\ child' = child
                /\ fired' = << >>
          /\ DisconnectRunner1(id) => client[id] = "detached"]_vars

\* A persistent process was detached and reattached: its long timer is not
\* armed and its child is running.
C17_Witness ==
    \E id \in PtyIds :
        /\ id \in ptys
        /\ ptp[id].shouldPersist
        /\ client[id] = "reattached"
        /\ ~ptp[id].runner1
        /\ child[id] = "running"

(***************************************************************************)
(* C18.  Two isOrphaned() calls of which the second is made while the      *)
(* first is unresolved are serialized (only the call at the head of the    *)
(* queue has begun its check), create one barrier between them, and        *)
(* resolve with the same boolean; stated for a process whose client never  *)
(* detached, so that no grace timer decides either answer.                 *)
(***************************************************************************)
C18_ConcurrentOrphanChecksAgree ==
    \A id \in PtyIds :
        /\ \A i \in DOMAIN orphanCalls[id] : i > 1 => orphanCalls[id][i].st = "queued"
        /\ (/\ Len(orphanAnswers[id]) = 2
            /\ orphanAnswers[id][2].overlapped
            /\ client[id] = "attached")
           => /\ orphanAnswers[id][1].value = orphanAnswers[id][2].value
              /\ probes[id] <= 1

(***************************************************************************)
(* C19.  When an isOrphaned() check runs while the long or the short       *)
(* grace timer is armed, it returns true in that same step: no barrier is  *)
(* created, no reply time is reset and the call waits on nothing; and the  *)
(* call whose check has returned resolves with true, whatever was done to  *)
(* the timers in between: what a check has returned stays as it is until   *)
(* the call leaves the queue, and is what the call resolves with.          *)
(***************************************************************************)
\* An isOrphaned() call begins its check: at once when the queue is empty, or
\* when the queue gets to it.
OrphanCheckRuns(id) ==
    \/ IsOrphaned(id) /\ orphanCalls[id] = << >>
    \/ OrphanQueueNext(id)

C19_ArmedTimerMeansOrphaned ==
    [][\A id \in PtyIds :
          /\ ((ptp[id].runner1 \/ ptp[id].runner2) /\ OrphanCheckRuns(id))
             => /\ Head(orphanCalls'[id]).st = "returned"
                /\ Head(orphanCalls'[id]).value = TRUE
                /\ ptp' = ptp
                /\ probes' = probes
                /\ \A i \in DOMAIN orphanCalls'[id] :
                      i > 1 => orphanCalls'[id][i].st = "queued"
          /\ (/\ orphanCalls[id] # << >>
              /\ Head(orphanCalls[id]).st = "returned"
              /\ IsOrphanedResume(id))
             => /\ Len(orphanAnswers'[id]) = Len(orphanAnswers[id]) + 1
                /\ orphanAnswers'[id][Len(orphanAnswers'[id])].value
                      = Head(orphanCalls[id]).value
                /\ ptp' = ptp
                /\ probes' = probes
          /\ (/\ orphanCalls[id] # << >>
              /\ Head(orphanCalls[id]).st = "returned"
              /\ ~IsOrphanedResume(id))
             => /\ orphanCalls'[id] # << >>
                /\ Head(orphanCalls'[id]) = Head(orphanCalls[id])]_vars

\* A check answered true without any barrier ever having been created, while
\* only the short timer was armed (the long one was cancelled by an attach or
\* has fired).
C19_Witness ==
    \E id \in PtyIds :
        /\ id \in ptys
        /\ ptp[id].runner2 /\ ~ptp[id].runner1
        /\ orphanAnswers[id] # << >>
        /\ orphanAnswers[id][1].value
        /\ probes[id] = 0
        /\ ptp[id].barrier = "null"

(***************************************************************************)
(* C20.  Every shutdownAll() shuts down the child of every process in the  *)
(* registry, whatever its state and whatever timer is pending, and leaves  *)
(* the registry empty.                                                     *)
(***************************************************************************)
C20_ShutdownAllEmptiesRegistry ==
    [][ShutdownAll
       => /\ ptys' = {}
          /\ \A id \in ptys : child'[id] # "running"
          /\ \A id \in ptys : ptp[id].runner1 => child'[id] = "killed"]_vars

(***************************************************************************)
(* C21.  getTerminalLayoutInfo for a workspace with a stored layout does   *)
(* not fail on stored terminals whose process is gone: the tabs it returns *)
(* are, in stored order, the stored tabs with at least one terminal found  *)
(* in the registry when the call was made, each with exactly those         *)
(* terminals in stored order; a tab is dropped if and only if none of its  *)
(* terminals was found.                                                    *)
(***************************************************************************)
\* The ids of the terminals of the tabs of a result.
ResultIds(tabs) == [i \in 1..Len(tabs) |-> [j \in 1..Len(tabs[i]) |-> tabs[i][j].id]]

\* The stored tabs with a terminal in `live`, each cut down to those terminals.
LiveTabs(stored, live) ==
    LET IsLive(t) == t \in live
        HasLive(tab) == \E j \in 1..Len(tab) : tab[j] \in live
        kept == SelectSeq(stored, HasLive)
    IN [i \in 1..Len(kept) |-> SelectSeq(kept[i], IsLive)]

C21_LayoutKeepsLiveTerminals ==
    layoutResult.status = "tabs"
        => ResultIds(layoutResult.tabs) = LiveTabs(layoutResult.stored, layoutResult.live)

\* A call returned one tab of a stored layout of two: the tab kept had a
\* terminal in the registry and one that was not, the tab dropped had none.
C21_Witness ==
    /\ layoutResult.status = "tabs"
    /\ Len(layoutResult.stored) = 2
    /\ Len(layoutResult.tabs) = 1
    /\ Len(layoutResult.tabs[1]) = 1
    /\ \E i \in 1..2 :
          /\ Len(layoutResult.stored[i]) = 2
          /\ \E j, k \in 1..2 : /\ layoutResult.stored[i][j] \in layoutResult.live
                                /\ layoutResult.stored[i][k] \notin layoutResult.live
    /\ \E i \in 1..2 :
          /\ Len(layoutResult.stored[i]) > 0
          /\ \A j \in 1..Len(layoutResult.stored[i]) :
                layoutResult.stored[i][j] \notin layoutResult.live

(***************************************************************************)
(* C22.  createProcess with a launch config that carries an attach         *)
(* descriptor is rejected, and the rejected call consumes no id and adds   *)
(* no entry to the registry: the id counter, the registry, the ids issued  *)
(* and every process are as they were before the call.                     *)
(***************************************************************************)
C22_AttachRejectedWithoutId ==
    [][ptyError' = AttachError
          => UNCHANGED <<lastPtyId, ptys, issued, child, ptp, term, client>>]_vars

\* A createProcess call was just rejected for its attach descriptor while the
\* registry holds a process, and the counter stands at the last id issued.
C22_Witness ==
    /\ ptyError = AttachError
    /\ ptys # {}
    /\ Len(issued) > 0
    /\ lastPtyId = issued[Len(issued)]

(***************************************************************************)
(* C23.  On a fresh RateLimiter, with no time passing, removeToken()       *)
(* returns true for the first 14 calls and false for every later call: the *)
(* first 2 tokens come from the per-minute bucket, the next 12 from the    *)
(* per-hour bucket.  canTry() is true while fewer than 14 tokens have been *)
(* removed and false once 14 have been.                                    *)
(***************************************************************************)
\* The number of removeToken() calls that returned true.
TokensRemoved == Cardinality({i \in 1..Len(removeResults) : removeResults[i]})

C23_FourteenTokens ==
    /\ \A i \in 1..Len(removeResults) : removeResults[i] <=> i <= 14
    /\ minuteLimiter.content = (IF TokensRemoved <= 2 THEN 2 - TokensRemoved ELSE 0)
    /\ hourLimiter.content = (IF TokensRemoved <= 2 THEN 12 ELSE 14 - TokensRemoved)
    /\ CanTry(minuteLimiter, hourLimiter) <=> TokensRemoved < 14

\* Fifteen calls were made: the fourteenth returned true, the fifteenth
\* false, and canTry() is false.
C23_Witness ==
    /\ Len(removeResults) >= 15
    /\ removeResults[14]
    /\ ~removeResults[15]
    /\ ~CanTry(minuteLimiter, hourLimiter)

(***************************************************************************)
(* C24.  Every non-reconnection handshake that creates a Connection,       *)
(* Management or ExtensionHost, sends the acknowledgement, registers the   *)
(* Connection in the table and emits exactly one client-connected          *)
(* notification for it; a reconnection handshake emits none.               *)
(***************************************************************************)
C24_NewConnectionNotifiesOnce ==
    [][\A s \in SocketIds :
          /\ (hs[s].pc = "awaitOkNew" /\ hs'[s].pc = "done")
                => /\ sent'[s] = Append(sent[s], AckMessage(hs[s].dtype))
                   /\ conn'[s] = NewConnection(hs[s].dtype, hs[s].token, s)
                   /\ Registered(table', hs[s].dtype, hs[s].token)
                   /\ MapGet(table'[hs[s].dtype], hs[s].token) = s
                   /\ clientConnects'[s] = clientConnects[s] + 1
                   /\ clientConnects'[s] = 1
          /\ (hs[s].pc = "awaitOkReconnect" /\ hs'[s].pc # "awaitOkReconnect")
                => clientConnects' = clientConnects]_vars

(***************************************************************************)
(* C25.  A handshake whose desired connection type is Tunnel creates no    *)
(* Connection and leaves the connection table and every existing           *)
(* Connection as they were; nothing is written to the socket, which is     *)
(* left as it is in the hands of the tunneling function: the server never  *)
(* disposes it.                                                            *)
(***************************************************************************)
C25_TunnelCreatesNoConnection ==
    [][\A s \in SocketIds :
          hs'[s].pc = "tunnel"
             => /\ hs[s].pc \in {"connect", "tunnel"}
                /\ hs[s].pc = "connect" => (/\ table' = table /\ conn' = conn /\ sent' = sent
                                            /\ sockets' = sockets)
                /\ conn'[s] = NoConn
                /\ sent'[s] = << >>
                /\ sockets'[s] \in {"open", "closed"}
                /\ \A t \in DOMAIN table' : ~\E i \in DOMAIN table'[t] : table'[t][i].c = s]_vars

\* A Tunnel handshake has returned while the table holds a Connection.
C25_Witness ==
    \E s \in SocketIds :
        /\ hs[s].pc = "tunnel"
        /\ \E c \in ConnIds : Live(c) /\ RegisteredAs(c)

(***************************************************************************)
(* C26.  When the retention scan that follows a new registration disposes  *)
(* offline Connections, those it disposes went offline before every one it *)
(* keeps, and it keeps the maxExtraOfflineConnections that went offline    *)
(* last (all of them when there are fewer).  The bound of the program is   *)
(* the constant 0, which no configuration changes: the scan keeps none.    *)
(***************************************************************************)
\* The offline Connections the scan that follows the registration of `token`
\* under `dtype` looks at: those the table holds under another token.
ScannedOffline(dtype, token) ==
    {c \in ConnIds : /\ Live(c)
                     /\ conn[c].offline # 0
                     /\ \E i \in DOMAIN table[dtype] :
                            table[dtype][i].c = c /\ table[dtype][i].token # token}

C27_LaunchErrorIsReturned ==
    [][ptyError' = "launch error"
          => \E id \in PtyIds :
                /\ term[id].starting > 0
                /\ term' = [term EXCEPT ![id].starting = @ - 1]
                /\ ptys' = ptys
                /\ ptp' = ptp
                /\ ~term[id].spawned => ~ptp'[id].isStarted
                /\ child' = child]_vars

\* start() has just returned a launch error for a process that is still in
\* the registry and not started, after the one launch that failed.
C27_Witness ==
    \E id \in PtyIds :
        /\ ptyError = "launch error"
        /\ HasPty(ptys, id)
        /\ ~ptp[id].isStarted
        /\ term[id].launches = 1
        /\ term[id].starting = 0
        /\ child[id] = "running"

(***************************************************************************)
(* C28.  While a process is in replay, input(), resize() and               *)
(* acknowledgeDataEvent() are dropped: nothing reaches the child and       *)
(* nothing is recorded.  Outside replay each call on a process of the      *)
(* registry is forwarded exactly once: input and acknowledgement arrive at *)
(* the child once, a resize is given to the child and recorded once.  And  *)
(* the step that emits a replay delivers nothing to the child.             *)
(***************************************************************************)
\* The step is this call on a process of the registry.
CallOn(id, call) == HasPty(ptys, id) /\ call

\* What the step adds to what the child of the process received, to the sizes
\* it was given and to the Recorder.
Delivered(id) == SubSeq(term'[id].received, Len(term[id].received) + 1, Len(term'[id].received))
Resized(id) == SubSeq(history'[id], Len(history[id]) + 1, Len(history'[id]))
Recorded(id) == SubSeq(ptp'[id].recorder, Len(ptp[id].recorder) + 1, Len(ptp'[id].recorder))

C28_ReplayDropsLiveInput ==
    [][\A id \in PtyIds :
          /\ \A data \in Inputs :
                CallOn(id, Input(id, data))
                   => /\ Delivered(id) = (IF ptp[id].inReplay THEN << >> ELSE <<InputEvent(data)>>)
                      /\ Resized(id) = << >> /\ Recorded(id) = << >>
          /\ \A size \in Sizes :
                CallOn(id, Resize(id, size))
                   => /\ Resized(id) = (IF ptp[id].inReplay THEN << >> ELSE <<ResizeEvent(size)>>)
                      /\ Recorded(id) = (IF ptp[id].inReplay THEN << >> ELSE <<ResizeEvent(size)>>)
                      /\ Delivered(id) = << >>
          /\ CallOn(id, AcknowledgeDataEvent(id))
                => /\ Delivered(id) = (IF ptp[id].inReplay THEN << >> ELSE <<AckEvent>>)
                   /\ Resized(id) = << >> /\ Recorded(id) = << >>
          /\ (\E i \in 1..Len(fired') : fired'[i].id = id /\ fired'[i].event = "replay")
                => term'[id] = term[id] /\ history'[id] = history[id]]_vars

\* A replay was just emitted for a process whose child had received an input
\* and been given a size before; both calls were forwarded once.
C28_Witness ==
    \E id \in PtyIds :
        /\ \E i \in 1..Len(fired) : fired[i].id = id /\ fired[i].event = "replay"
        /\ ~ptp[id].inReplay
        /\ \E data \in Inputs : term[id].received = <<InputEvent(data)>>
        /\ \E size \in Sizes : /\ ptp[id].recorder = <<ResizeEvent(size)>>
                               /\ history[id] = <<ResizeEvent(size)>>

(***************************************************************************)
(* C29.  reduceGraceTime() arms the short grace timer exactly when the     *)
(* long timer is armed and the short one is not; an armed short timer is   *)
(* left as it is, and with no timer armed the call changes nothing.  Once  *)
(* armed, the short timer shuts the process down when its window elapses,  *)
(* unless the client has reattached.                                       *)
(***************************************************************************)
C29_ReduceGraceTimeArmsShortTimer ==
    [][\A id \in PtyIds :
          /\ (HasPty(ptys, id) /\ ReduceGraceTime(id))
                => /\ ptp'[id].runner2 = (ptp[id].runner2 \/ ptp[id].runner1)
                   /\ ptp' = [ptp EXCEPT ![id].runner2 = ptp'[id].runner2]
                   /\ child' = child
          /\ DisconnectRunner2(id)
                => /\ child'[id] = ShutdownChild(child[id])
                   /\ client[id] # "reattached"]_vars

(***************************************************************************)
(* C30.  Every isOrphaned() call eventually resolves: the n-th call made   *)
(* on a process is followed by its n-th answer, whether the call ran at    *)
(* once or was queued behind another, and whether or not                   *)
(* orphanQuestionReply() is ever called.                                   *)
(***************************************************************************)
\* The number of isOrphaned() calls made on a process so far.
OrphanCallsSoFar(id) == Len(orphanCalls[id]) + Len(orphanAnswers[id])

C30_OrphanCallsResolve ==
    \A id \in PtyIds : \A n \in 1..MaxOrphanCalls :
        (OrphanCallsSoFar(id) >= n) ~> (Len(orphanAnswers[id]) >= n)

\* Two overlapping calls were made on an attached process with no timer armed;
\* no reply came, the barrier opened by its timeout, and both calls resolved.
C30_Witness ==
    \E id \in PtyIds :
        /\ Len(orphanAnswers[id]) = 2
        /\ orphanAnswers[id][2].overlapped
        /\ orphanCalls[id] = << >>
        /\ probes[id] = 1
        /\ ptp[id].barrier = "open"
        /\ ptp[id].replyTime = "zero"
        /\ client[id] = "attached"

(***************************************************************************)
(* C31.  An isOrphaned() check that found no grace timer armed and waited  *)
(* on the barrier answers false when an orphanQuestionReply() was recorded *)
(* since the probe began, however long the reply took, and true when none  *)
(* was.  While the barrier of a probe is in place no reply has been        *)
(* recorded for it (the reply time is the zero the probe reset it to), and *)
(* a reply recorded for the probe of a waiting call has taken the barrier  *)
(* away; so at the resumption a reply time other than zero is a reply      *)
(* recorded for this probe.                                                *)
(***************************************************************************)
\* orphanQuestionReply() was recorded since the probe of the waiting call began.
ReplyRecorded(id) == ptp[id].replyTime # "zero"

C31_ReplyDecidesOrphanAnswer ==
    /\ [](\A id \in PtyIds :
             /\ ptp[id].barrier # "null" => ~ReplyRecorded(id)
             /\ (orphanCalls[id] # << >> /\ Head(orphanCalls[id]).st = "waiting")
                => (ReplyRecorded(id) <=> ptp[id].barrier = "null"))
    /\ [][\A id \in PtyIds :
             /\ IsOrphanedBarrierResume(id)
                => /\ Head(orphanCalls'[id]).st = "returned"
                   /\ Head(orphanCalls'[id]).value = ~ReplyRecorded(id)
             /\ (/\ orphanCalls[id] # << >>
                 /\ Head(orphanCalls[id]).st = "returned"
                 /\ IsOrphanedResume(id))
                => /\ Len(orphanAnswers'[id]) = Len(orphanAnswers[id]) + 1
                   /\ orphanAnswers'[id][Len(orphanAnswers'[id])].value
                         = Head(orphanCalls[id]).value]_vars

(***************************************************************************)
(* C32.  The exit of a child disposes its Persistent Process, takes its id *)
(* out of the registry and cancels its grace timers, armed or not, and     *)
(* changes nothing of any other process; from then on the id stays unknown *)
(* to the registry and its timers stay cancelled.                          *)
(***************************************************************************)
\* What the registry and the process hold for an id.
ProcessState(id) == <<id \in ptys, child[id], ptp[id], term[id], history[id], client[id],
                      orphanCalls[id], orphanAnswers[id], probes[id]>>

C32_ChildExitEndsProcess ==
    /\ [](\A id \in PtyIds :
             child[id] = "exited"
             => /\ ~HasPty(ptys, id)
                /\ ptp[id].disposed
                /\ ~ptp[id].runner1 /\ ~ptp[id].runner2)
    /\ [][\A id \in PtyIds :
             ProcessExit(id)
             => /\ child'[id] = "exited"
                /\ \A other \in PtyIds \ {id} : ProcessState(other)' = ProcessState(other)
                /\ lastPtyId' = lastPtyId /\ issued' = issued]_vars

\* The child of a detached process has exited while another process is still
\* in the registry with its long and its short timer armed.
C32_Witness ==
    \E id, other \in PtyIds :
        /\ id # other
        /\ child[id] = "exited"
        /\ client[id] = "detached"
        /\ fired = <<Notification(id, "exit", << >>)>>
        /\ HasPty(ptys, other)
        /\ ptp[other].runner1 /\ ptp[other].runner2

(***************************************************************************)
(* C33.  Once the life of a Persistent Process has ended (its child was    *)
(* shut down by shutdown(), by shutdownAll() or by a grace timer, or has   *)
(* exited), neither of its grace timers is armed, so that none can fire    *)
(* afterwards, and no orphan barrier of it is still waiting to open.       *)
(***************************************************************************)
C33_NoTimerAfterLifeEnded ==
    \A id \in PtyIds :
        child[id] \in {"killed", "exited"}
        => /\ ~ptp[id].runner1
           /\ ~ptp[id].runner2
           /\ ptp[id].barrier # "closed"

(***************************************************************************)
(* C34.  setTerminalLayoutInfo stores the tabs it is given as the whole    *)
(* layout of its workspace and leaves the layout of every other workspace  *)
(* as it was, and nothing else changes a stored layout.  A                 *)
(* getTerminalLayoutInfo call for a workspace without a layout returns     *)
(* undefined; otherwise it works on the layout stored for its workspace    *)
(* when the call is made, and what it returns is that layout cut down to   *)
(* the terminals found in the registry, whatever is stored for the other   *)
(* workspace or is set while the call awaits its descriptors.              *)
(***************************************************************************)
C34_LayoutsAreKeptPerWorkspace ==
    [][/\ \A ws \in Workspaces, tabs \in StoredLayouts :
             SetTerminalLayoutInfo(ws, tabs)
             => /\ layouts'[ws] = StoredLayout(tabs)
                /\ \A other \in Workspaces \ {ws} : layouts'[other] = layouts[other]
       /\ \A ws \in Workspaces :
             layouts'[ws] # layouts[ws]
             => \E tabs \in StoredLayouts : SetTerminalLayoutInfo(ws, tabs)
       /\ \A ws \in Workspaces :
             GetTerminalLayoutInfo(ws)
             => IF layouts[ws].set
                THEN /\ layoutCall'.pending
                     /\ layoutCall'.workspace = ws
                     /\ layoutCall'.stored = layouts[ws].tabs
                     /\ layoutResult' = layoutResult
                ELSE /\ ~layoutCall'.pending
                     /\ layoutResult'.status = "undefined"
                     /\ layoutResult'.workspace = ws
       /\ GetTerminalLayoutInfoResume
             => /\ layoutResult'.status = "tabs"
                /\ layoutResult'.workspace = layoutCall.workspace
                /\ ResultIds(layoutResult'.tabs) = LiveTabs(layoutCall.stored, layoutCall.live)]_vars

\* A call for "w1" returned the one terminal of the layout set for "w1" when
\* the call was made, although the layout of "w1" had been set before to
\* something else, has been set since to no tab at all, and "w2" has never had
\* a layout.
C34_Witness ==
    /\ layoutResult.status = "tabs"
    /\ layoutResult.workspace = "w1"
    /\ Len(layoutResult.tabs) = 1
    /\ layoutSets = 3
    /\ layouts["w1"] = StoredLayout(<< >>)
    /\ ~layouts["w2"].set

(***************************************************************************)
(* C35.  detachFromProcess on a process that persists arms the long grace  *)
(* timer and changes nothing else: the child, what was forwarded to it,    *)
(* the started flag, the recorder, the short timer and the registry are as *)
(* before.  While the client is detached the data the child writes is      *)
(* still recorded, and input() and resize() are still forwarded to the     *)
(* child (resize() is recorded as well).                                   *)
(***************************************************************************)
\* The client of a process of the registry is detached.
Detached(id) == HasPty(ptys, id) /\ client[id] = "detached"

C35_DetachOnlyArmsLongTimer ==
    [][\A id \in PtyIds :
          /\ (HasPty(ptys, id) /\ ptp[id].shouldPersist /\ DetachFromProcess(id))
             => /\ ptp'[id] = [ptp[id] EXCEPT !.runner1 = TRUE]
                /\ \A other \in PtyIds \ {id} : ptp'[other] = ptp[other]
                /\ UNCHANGED <<ptys, child, term, history, lastPtyId, issued>>
          /\ \A chunk \in Chunks :
                (Detached(id) /\ ProcessData(id, chunk))
                => ptp'[id].recorder = Append(ptp[id].recorder, DataEvent(chunk))
          /\ \A data \in Inputs :
                (Detached(id) /\ Input(id, data))
                => term'[id].received = Append(term[id].received, InputEvent(data))
          /\ \A size \in Sizes :
                (Detached(id) /\ Resize(id, size))
                => /\ history'[id] = Append(history[id], ResizeEvent(size))
                   /\ ptp'[id].recorder = Append(ptp[id].recorder, ResizeEvent(size))]_vars

\* A started process whose client is detached and whose long timer is armed:
\* its child runs and has just written data, which is the last thing recorded
\* after a resize, and an input was forwarded to it.
C35_Witness ==
    \E id \in PtyIds :
        /\ Detached(id)
        /\ ptp[id].shouldPersist /\ ptp[id].runner1 /\ ptp[id].isStarted
        /\ child[id] = "running"
        /\ Len(fired) = 1 /\ fired[1].id = id /\ fired[1].event = "data"
        /\ Len(ptp[id].recorder) = 2
        /\ ptp[id].recorder[1].type = "resize"
        /\ ptp[id].recorder[2].type = "data"
        /\ \E k \in DOMAIN term[id].received : term[id].received[k].type = "input"

(***************************************************************************)
(* C36.  In the POST handler of the login route a token leaves the         *)
(* RateLimiter only when a password that is present turns out incorrect:   *)
(* the entry of a request, the rendering of an error and a login with the  *)
(* correct password leave both buckets as they are, and a request without  *)
(* password is rejected before any token is looked at.  A request that     *)
(* arrives while canTry() is false is rejected as rate limited whatever    *)
(* its password: it is never validated, it removes no token and no session *)
(* cookie is set for it.                                                   *)
(***************************************************************************)
\* Both buckets of the RateLimiter are empty.
NoTokenLeft == minuteLimiter.content = 0 /\ hourLimiter.content = 0

C36_OnlyWrongPasswordCostsToken ==
    /\ [](\A r \in RequestIds :
             /\ requests[r].cookie
                => requests[r].password = "right" /\ requests[r].error = "none"
             /\ requests[r].pc = "validating" => requests[r].password # "missing"
             /\ requests[r].error = "Incorrect password" => requests[r].password = "wrong"
             /\ requests[r].error = "Missing password" => requests[r].password = "missing")
    /\ [][\A r \in RequestIds :
             /\ \A password \in Passwords :
                   LoginPost(r, password)
                   => /\ UNCHANGED <<minuteLimiter, hourLimiter, removeResults>>
                      /\ NoTokenLeft
                         => requests'[r] = Request("rendering", password,
                                                   "Login rate limited!", FALSE)
                      /\ (~NoTokenLeft /\ password = "missing")
                         => requests'[r] = Request("rendering", password,
                                                   "Missing password", FALSE)
             /\ LoginPostValidated(r)
                   => IF requests[r].password = "wrong"
                      THEN /\ Len(removeResults') = Len(removeResults) + 1
                           /\ TokensRemoved' =
                                  TokensRemoved + (IF NoTokenLeft THEN 0 ELSE 1)
                           /\ ~requests'[r].cookie
                      ELSE /\ UNCHANGED <<minuteLimiter, hourLimiter, removeResults>>
                           /\ requests'[r].cookie
             /\ LoginPostRendered(r)
                   => /\ UNCHANGED <<minuteLimiter, hourLimiter, removeResults>>
                      /\ requests'[r].error = requests[r].error
                      /\ ~requests'[r].cookie]_vars

\* With no token left, a request with the correct password has been answered
\* with the rate limit error and without a cookie, while the other request,
\* made with the correct password when tokens were left, was let in.
C36_Witness ==
    \E r, q \in RequestIds :
        /\ NoTokenLeft
        /\ requests[r] = Request("done", "right", "Login rate limited!", FALSE)
        /\ requests[q] = Request("done", "right", "none", TRUE)

(***************************************************************************)
(* C37.  While a client is attached to a process of the registry (from its *)
(* creation or an attachToProcess until the next detachFromProcess),       *)
(* neither the long nor the short grace timer of the process is armed, so  *)
(* that none of them can fire and shut the process down and isOrphaned()   *)
(* does not answer true for it on the ground of a timer.                   *)
(***************************************************************************)
C37_NoTimerWhileAttached ==
    \A id \in PtyIds :
        (HasPty(ptys, id) /\ client[id] \in {"attached", "reattached"})
        => ~TimerArmed(ptp[id])

(***************************************************************************)
(* C38.  A start() made while an earlier start() of the same process still *)
(* awaits the launch of the child does not ask for the launch again: at    *)
(* most one launch of a child is awaited at any time.                      *)
(***************************************************************************)
C38_OverlappingStartLaunchesOnce ==
    [][\A id \in PtyIds :
          (HasPty(ptys, id) /\ term[id].starting > 0 /\ Start(id))
          => /\ term'[id].launches = term[id].launches
             /\ term'[id].starting = term[id].starting]_vars

(***************************************************************************)
(* C39.  The retention scan that ends a new registration disposes only     *)
(* Connections that are offline (bound to no socket): every Connection it  *)
(* disposes had gone offline before the step, none is the Connection just  *)
(* registered, which is live and bound to its socket after the step, and   *)
(* no socket bound to a Connection is touched.  The reconnection branch,   *)
(* whether it rebinds the Connection or fails, disposes no Connection and  *)
(* leaves the table as it is.                                              *)
(***************************************************************************)
\* The Connections a step disposes.
DisposedNow == {c \in ConnIds : ~conn[c].disposed /\ conn'[c].disposed}

C39_ScanSparesOnlineConnections ==
    [][\A s \in SocketIds :
          /\ (hs[s].pc = "awaitOkNew" /\ hs'[s].pc = "done")
             => /\ \A c \in DisposedNow :
                      /\ c # s
                      /\ LiveIn(conn, c)
                      /\ conn[c].offline # 0
                      /\ conn[c].socket = 0
                /\ LiveIn(conn', s) /\ conn'[s].socket = s /\ conn'[s].offline = 0
                /\ \A c \in ConnIds :
                      (LiveIn(conn, c) /\ conn[c].socket # 0)
                      => conn'[c] = conn[c] /\ sockets'[conn[c].socket] = sockets[conn[c].socket]
          /\ (hs[s].pc = "awaitOkReconnect" /\ hs'[s].pc # "awaitOkReconnect")
             => /\ DisposedNow = {}
                /\ table' = table]_vars

\* With no extra offline Connection allowed, the first Connection went offline
\* and is disposed; the second, registered before the third, is still online
\* and registered, and so is the third, whose handshake has just been
\* acknowledged.
C39_Witness ==
    /\ extraOffline = 0
    /\ conn[1].disposed /\ sockets[1] = "closed"
    /\ LiveIn(conn, 2) /\ conn[2].socket = 2 /\ conn[2].offline = 0
    /\ LiveIn(conn, 3) /\ conn[3].socket = 3 /\ conn[3].offline = 0
    /\ hs[3].pc = "done"
    /\ RegisteredAs(2) /\ RegisteredAs(3)

(***************************************************************************)
(* C40.  After an orphan probe has ended by the timeout of its barrier,    *)
(* every isOrphaned() check that begins with no grace timer armed starts a *)
(* fresh probe: it creates a barrier, resets the recorded reply time and   *)
(* waits on a barrier that is not open yet, so that only a reply or a      *)
(* timeout that comes during the check can end it.                         *)
(***************************************************************************)
C40_NoStaleBarrier ==
    [][\A id \in PtyIds :
          (OrphanCheckRuns(id) /\ ~TimerArmed(ptp[id]))
          => /\ probes'[id] = probes[id] + 1
             /\ ptp'[id].barrier = "closed"
             /\ ptp'[id].replyTime = "zero"
             /\ orphanCalls'[id] # << >>
             /\ Head(orphanCalls'[id]).st = "waiting"
             /\ ~Head(orphanCalls'[id]).open]_vars

====
